---- MODULE Spec2Model ----
(***************************************************************************)
(* Price-triggered bracket trading of whatsapp-task-bot: the /trade task,  *)
(* the trade alert manager (alert registry, pending-fill registry, price   *)
(* history, the 60 s monitor tick) and the order service, as a state       *)
(* machine.  Suspension points (await on an external call) split a handler *)
(* into steps; everything between two awaits is one atomic step.           *)
(*                                                                         *)
(* Money values are integers in tenths of a dollar (parseFloat("2") = 20,  *)
(* parseFloat(".5") = 5); NaN is the value NaN, compared as JavaScript     *)
(* compares it (every comparison with NaN is false).  A nullable field is  *)
(* a sequence of length 0 (null) or 1.                                     *)
(***************************************************************************)
EXTENDS Integers, Sequences, FiniteSets, TLC

\* ------------------------------------------------------------------ bounds
MaxPlans == 2
MaxTradePlans == 1
MaxTicks == 2
MaxOrders == 3
MaxRequests == 3
HISTORY_MAX == 30
ORDER_COUNT == 25

Symbols == {"AAPL", "UBER"}
Users == {"u1", "u2"}
QuotePrices == {10, 20}
TickSlots == {"t1", "t2"}
Handlers == {"h1", "h2"}
Procs == TickSlots \cup Handlers

None == <<>>
Some(x) == <<x>>

\* ------------------------------------------------------------ plan parsing
Digits == {"0", "1", "2", "3", "4", "5", "6", "7", "8", "9"}
NaN == -1

DigitVal(c) ==
  CASE c = "0" -> 0 [] c = "1" -> 1 [] c = "2" -> 2 [] c = "3" -> 3 [] c = "4" -> 4
    [] c = "5" -> 5 [] c = "6" -> 6 [] c = "7" -> 7 [] c = "8" -> 8 [] c = "9" -> 9

RECURSIVE LeadDigits(_)
\* number of leading decimal digits of a character sequence
LeadDigits(s) ==
  IF s = <<>> \/ Head(s) \notin Digits THEN 0 ELSE 1 + LeadDigits(Tail(s))

RECURSIVE DigitsVal(_, _)
\* value of a sequence of decimal digits, most significant first
DigitsVal(s, acc) ==
  IF s = <<>> THEN acc ELSE DigitsVal(Tail(s), acc * 10 + DigitVal(Head(s)))

\* parseFloat on a token of digits and dots: the longest prefix that is a
\* decimal literal (digits, optionally "." and digits; or "." and digits);
\* NaN when there is none.  The result is in tenths (tokens carry at most one
\* fractional digit).
parseFloat(tok) ==
  LET n == LeadDigits(tok)
      rest == SubSeq(tok, n + 1, Len(tok))
      m == IF rest # <<>> /\ Head(rest) = "." THEN LeadDigits(Tail(rest)) ELSE 0
      int == DigitsVal(SubSeq(tok, 1, n), 0)
      frac == IF m = 0 THEN 0 ELSE DigitVal(rest[2])
  IN IF n = 0 /\ m = 0 THEN NaN ELSE int * 10 + frac

\* parseInt(s, 10) on a token that starts with a digit
parseInt(tok) == DigitsVal(SubSeq(tok, 1, LeadDigits(tok)), 0)

\* JavaScript's comparisons on numbers that may be NaN
Lt(a, b) == a # NaN /\ b # NaN /\ a < b
Le(a, b) == a # NaN /\ b # NaN /\ a <= b
Ge(a, b) == a # NaN /\ b # NaN /\ a >= b

\* PLAN_REGEX on a message "buy <low> <high> tp <tp> sl <sl> <kind> <amt>": the
\* four prices are tokens of [\d.]+, then either "budget" and a [\d.]+ token
\* or "qty" and a token whose leading [\d]+ is captured.  kind "none" is any
\* text of another shape.
PlanRegexMatches(text) ==
  /\ text.kind \in {"budget", "qty"}
  /\ \A f \in {"low", "high", "tp", "sl"} : text[f] # <<>>
  /\ text.kind = "budget" => text.amt # <<>>
  /\ text.kind = "qty" => LeadDigits(text.amt) > 0

NoPlan == [ok |-> FALSE]

parsePlan(text) ==
  IF ~PlanRegexMatches(text) THEN NoPlan
  ELSE [ok |-> TRUE,
        buyLow |-> parseFloat(text.low),
        buyHigh |-> parseFloat(text.high),
        takeProfit |-> parseFloat(text.tp),
        stopLoss |-> parseFloat(text.sl),
        budget |-> IF text.kind = "budget" THEN Some(parseFloat(text.amt)) ELSE None,
        fixedQty |-> IF text.kind = "qty" THEN Some(parseInt(text.amt)) ELSE None]

\* The checks of handleParams, in order; "ok" when the plan is registered.
ValidatePlan(p) ==
  IF Ge(p.buyLow, p.buyHigh) THEN "low_ge_high"
  ELSE IF Le(p.takeProfit, p.buyHigh) THEN "tp_le_high"
  ELSE IF Ge(p.stopLoss, p.buyLow) THEN "sl_ge_low"
  ELSE IF p.budget # None /\ Le(p.budget[1], 0) THEN "budget_le_0"
  ELSE IF p.fixedQty # None /\ p.fixedQty[1] <= 0 THEN "qty_le_0"
  ELSE "ok"

\* a quantity rounded up instead of down
calcQty_RoundUp(budget, price) ==
  IF budget = NaN THEN NaN ELSE (budget + price - 1) \div price

\* calcQty: Math.floor(budget / price); NaN propagates.
calcQty(budget, price) == IF budget = NaN THEN NaN ELSE budget \div price

OrderQty(budget, fixedQty, price) ==
  IF fixedQty # None THEN fixedQty[1] ELSE calcQty(budget[1], price)

Text(low, high, tp, sl, kind, amt) ==
  [low |-> low, high |-> high, tp |-> tp, sl |-> sl, kind |-> kind, amt |-> amt]

\* What users type in the main specification.
PlanTexts ==
  { Text(<<"2">>, <<"3">>, <<"4">>, <<"1">>, "budget", <<"7">>),
    Text(<<"2">>, <<"3">>, <<"4">>, <<"1">>, "qty", <<"2">>),
    Text(<<"3">>, <<"2">>, <<"4">>, <<"1">>, "budget", <<"7">>),
    Text(<<"2">>, <<"3">>, <<"4">>, <<"1">>, "none", <<>>) }

\* What users type where rejected messages are examined: PlanTexts and one
\* message for each of the other checks that can fail.
RejectTexts ==
  PlanTexts \cup
  { Text(<<"2">>, <<"3">>, <<"3">>, <<"1">>, "budget", <<"7">>),
    Text(<<"2">>, <<"3">>, <<"4">>, <<"2">>, "budget", <<"7">>),
    Text(<<"2">>, <<"3">>, <<"4">>, <<"1">>, "budget", <<"0">>),
    Text(<<"2">>, <<"3">>, <<"4">>, <<"1">>, "qty", <<"0">>) }

\* What users type where the order quantity is examined: a budget of 3.5
\* shares at the price that fires, a budget below that price, a fixed quantity,
\* and a budget of "." (accepted by PLAN_REGEX, NaN to parseFloat).
QtyTexts ==
  { Text(<<"2">>, <<"3">>, <<"4">>, <<"1">>, "budget", <<"7">>),
    Text(<<"2">>, <<"3">>, <<"4">>, <<"1">>, "budget", <<"1">>),
    Text(<<"2">>, <<"3">>, <<"4">>, <<"1">>, "qty", <<"2">>),
    Text(<<"2">>, <<"3">>, <<"4">>, <<"1">>, "budget", <<".">>) }

\* What users type where registration itself is examined: every combination
\* of a few price tokens, "." among them, with a budget, a zero budget, a
\* quantity, or no size at all.
AllTexts ==
  { Text(low, high, tp, sl, size[1], size[2]) :
      low \in {<<"2">>, <<"3">>, <<".">>},
      high \in {<<"2">>, <<"3">>, <<".">>},
      tp \in {<<"3">>, <<"4">>, <<".">>},
      sl \in {<<"1">>, <<"2">>, <<".">>},
      size \in {<<"budget", <<"7">>>>, <<"budget", <<"0">>>>, <<"qty", <<"2">>>>,
                <<"none", <<>>>>} }

\* ------------------------------------------------------------------- state
VARIABLES
  sandbox,       \* config.etrade.sandbox
  sendFn,        \* TRUE once initAlertMonitor(send) has set sendFn and the cron job
  alerts,        \* Map key -> plan, as the sequence of its values in insertion order
  pendingFills,  \* Map key -> fill, as the sequence of its values in insertion order
  priceHistory,  \* symbol -> rolling buffer of prices, newest last (<<>>: no entry)
  userStates,    \* stateManager.userStates: user -> task state
  orders,        \* the broker's order list, oldest first; an order's id is its index
  requests,      \* the broker's log of order previews, its replies to them, and
                 \* order placements, oldest first
  procs,         \* the suspended asynchronous activities: monitor ticks and handlers
  nextPlan,      \* number of plans registered so far (a plan's id is its number)
  ticks,         \* number of timer firings so far
  runs,          \* number of _placeFillExits runs so far (a run's id is its number)
  fired,         \* history: plan id -> number of times _fireAlert ran for it
  out            \* the message whose send (sendFn, ctx.reply) ended in the last step,
                 \* or the warning the step logged, if any

vars == <<sandbox, sendFn, alerts, pendingFills, priceHistory, userStates, orders,
          requests, procs, nextPlan, ticks, runs, fired, out>>

NoOut == [kind |-> "none"]

Idle == [pc |-> "idle"]
NoTask == [activeTask |-> "none"]

\* The state after construction, for the users that write to the bot and the
\* symbols they trade.
InitOf(users, symbols) ==
  /\ sandbox \in BOOLEAN
  /\ sendFn = FALSE
  /\ alerts = <<>>
  /\ pendingFills = <<>>
  /\ priceHistory = [s \in symbols |-> <<>>]
  /\ userStates = [u \in users |-> NoTask]
  /\ orders = <<>>
  /\ requests = <<>>
  /\ procs = [p \in Procs |-> Idle]
  /\ nextPlan = 0
  /\ ticks = 0
  /\ fired = [i \in 1..MaxPlans |-> 0]
  /\ runs = 0
  /\ out = NoOut

\* ------------------------------------------------------- sequence helpers
RECURSIVE IndexOf(_, _, _, _)
\* first index i >= from with seq[i].symbol = sym and seq[i].userId = usr, else 0
IndexOf(seq, sym, usr, from) ==
  IF from > Len(seq) THEN 0
  ELSE IF seq[from].symbol = sym /\ seq[from].userId = usr THEN from
  ELSE IndexOf(seq, sym, usr, from + 1)

RemoveAt(seq, i) == SubSeq(seq, 1, i - 1) \o SubSeq(seq, i + 1, Len(seq))

\* Map.set: an existing key keeps its place, a new key goes last
MapSet(seq, v) ==
  LET i == IndexOf(seq, v.symbol, v.userId, 1)
  IN IF i = 0 THEN Append(seq, v) ELSE [seq EXCEPT ![i] = v]

\* Map.delete
MapDelete(seq, sym, usr) ==
  LET i == IndexOf(seq, sym, usr, 1)
  IN IF i = 0 THEN seq ELSE RemoveAt(seq, i)

\* ------------------------------------------------------------ state manager
hasActiveTask(us, u) == us[u].activeTask # "none"

startTask(us, u, taskName, data) ==
  [us EXCEPT ![u] = [activeTask |-> taskName, taskState |-> "started", data |-> data]]

EmptyData == <<>>

\* { ...current.data, ...newData }
MergeData(old, new) ==
  [k \in DOMAIN old \cup DOMAIN new |-> IF k \in DOMAIN new THEN new[k] ELSE old[k]]

\* updateTask: the task state changes and newData is merged into the data; a
\* user with no state is left alone
updateTask(us, u, newState, newData) ==
  IF us[u] = NoTask THEN us
  ELSE [us EXCEPT ![u] = [activeTask |-> @.activeTask, taskState |-> newState,
                          data |-> MergeData(@.data, newData)]]

clearTask(us, u) == [us EXCEPT ![u] = NoTask]

\* ----------------------------------------------------------- alert registry
\* String.prototype.toUpperCase and toLowerCase on the tickers users type
toUpperCase(s) ==
  IF s \in {"AAPL", "aapl", "Aapl"} THEN "AAPL"
  ELSE IF s \in {"UBER", "uber"} THEN "UBER"
  ELSE s

toLowerCase(s) ==
  IF s \in {"AAPL", "aapl", "Aapl"} THEN "aapl"
  ELSE IF s \in {"UBER", "uber"} THEN "uber"
  ELSE s

\* variant of addAlert with a plausible bug: a plan is added without looking
\* for the key
addAlert_Appends(as, plan) == Append(as, [plan EXCEPT !.symbol = toUpperCase(@)])

\* addAlert: the plan is stored, with its symbol in upper case, under the key
\* of that symbol and the user
addAlert(as, plan) == MapSet(as, [plan EXCEPT !.symbol = toUpperCase(@)])

\* listAlerts: the plans of a user, in the registry's order
listAlerts(as, userId) == SelectSeq(as, LAMBDA plan : plan.userId = userId)

\* _pruneHistory: the symbol's history goes when no alert watches it any more
_pruneHistory(as, hist, sym) ==
  IF \E i \in 1..Len(as) : as[i].symbol = sym THEN hist
  ELSE [hist EXCEPT ![sym] = <<>>]

\* removeAlert: [existed, alerts, hist]
removeAlert(as, hist, sym, usr) ==
  LET existed == IndexOf(as, toUpperCase(sym), usr, 1) # 0
      as2 == MapDelete(as, toUpperCase(sym), usr)
  IN [existed |-> existed,
      alerts |-> as2,
      hist |-> IF existed THEN _pruneHistory(as2, hist, toUpperCase(sym)) ELSE hist]

\* variant of _recordPrice with a plausible bug: the buffer is trimmed one
\* observation early
_recordPrice_TrimsEarly(hist, sym, price) ==
  LET buf == Append(hist[sym], price)
  IN [hist EXCEPT ![sym] = IF Len(buf) >= HISTORY_MAX THEN Tail(buf) ELSE buf]

\* _recordPrice: the observation goes last; beyond HISTORY_MAX the first goes
_recordPrice(hist, sym, price) ==
  LET buf == Append(hist[sym], price)
  IN [hist EXCEPT ![sym] = IF Len(buf) > HISTORY_MAX THEN Tail(buf) ELSE buf]

\* --------------------------------------------------------- the /trade task
\* "/trade TICKER" from a user with no active task: the router starts the task,
\* start() fetches the quote and asks for the plan.  (The task data also gets
\* currentPrice, which only feeds the prompt.)
TradeStart(u, sym) ==
  /\ ~hasActiveTask(userStates, u)
  /\ userStates' =
       updateTask(startTask(userStates, u, "/trade", EmptyData), u, "awaiting_params",
                  [symbol |-> sym])
  /\ out' = NoOut
  /\ UNCHANGED <<sandbox, requests, sendFn, alerts, pendingFills, priceHistory, orders, procs,
                 nextPlan, ticks, runs, fired>>

PlanOf(parsed, sym, u, id) ==
  [id |-> id, symbol |-> sym, userId |-> u,
   buyLow |-> parsed.buyLow, buyHigh |-> parsed.buyHigh,
   takeProfit |-> parsed.takeProfit, stopLoss |-> parsed.stopLoss,
   budget |-> parsed.budget, qty |-> parsed.fixedQty]

\* The verdict of handleParams on a message: "parse" (no match), the failed
\* check, or "ok".
ParamsVerdict(text) ==
  LET parsed == parsePlan(text)
  IN IF ~parsed.ok THEN "parse" ELSE ValidatePlan(parsed)

\* the handler slots are interchangeable: a new handler takes the first idle one
FirstIdleHandler(h) == h = "h1" \/ procs["h1"] # Idle

\* variant of handleParams with a plausible bug: the plan is stored as soon as
\* it parses, before the checks
handleParams_StoresFirst(u, text, h) ==
  /\ userStates[u].activeTask = "/trade"
  /\ userStates[u].taskState = "awaiting_params"
  /\ LET verdict == ParamsVerdict(text)
         sym == userStates[u].data.symbol
     IN IF verdict # "ok"
        THEN /\ h = "h1"
             /\ \E replyOk \in BOOLEAN :
                  userStates' = IF replyOk THEN userStates ELSE clearTask(userStates, u)
             /\ out' = [kind |-> "rejected", userId |-> u, symbol |-> sym, why |-> verdict]
             /\ alerts' = IF verdict = "parse" THEN alerts
                          ELSE addAlert(alerts, PlanOf(parsePlan(text), sym, u, nextPlan))
             /\ UNCHANGED <<nextPlan, procs>>
        ELSE /\ nextPlan < MaxPlans
             /\ procs[h] = Idle /\ FirstIdleHandler(h)
             /\ alerts' = addAlert(alerts, PlanOf(parsePlan(text), sym, u, nextPlan + 1))
             /\ nextPlan' = nextPlan + 1
             /\ procs' = [procs EXCEPT ![h] = [pc |-> "plan_reply", userId |-> u,
                                               symbol |-> sym, plan |-> nextPlan + 1]]
             /\ out' = NoOut
             /\ UNCHANGED userStates
  /\ UNCHANGED <<sandbox, requests, sendFn, pendingFills, priceHistory, orders, ticks, runs, fired>>

\* handleParams: a message while the task awaits the plan.  A rejected message is
\* answered and the task keeps waiting (a reply that throws makes the router
\* clean the task up); an accepted one registers the plan and then awaits the
\* reply "Trade plan set".
handleParams(u, text, h) ==
  /\ userStates[u].activeTask = "/trade"
  /\ userStates[u].taskState = "awaiting_params"
  /\ LET verdict == ParamsVerdict(text)
         sym == userStates[u].data.symbol
     IN IF verdict # "ok"
        THEN /\ h = "h1"
             /\ \E replyOk \in BOOLEAN :
                  userStates' = IF replyOk THEN userStates ELSE clearTask(userStates, u)
             /\ out' = [kind |-> "rejected", userId |-> u, symbol |-> sym, why |-> verdict]
             /\ UNCHANGED <<alerts, nextPlan, procs>>
        ELSE /\ nextPlan < MaxPlans
             /\ procs[h] = Idle /\ FirstIdleHandler(h)
             /\ alerts' = addAlert(alerts, PlanOf(parsePlan(text), sym, u, nextPlan + 1))
             /\ nextPlan' = nextPlan + 1
             /\ procs' = [procs EXCEPT ![h] = [pc |-> "plan_reply", userId |-> u,
                                               symbol |-> sym, plan |-> nextPlan + 1]]
             /\ out' = NoOut
             /\ UNCHANGED userStates
  /\ UNCHANGED <<sandbox, requests, sendFn, pendingFills, priceHistory, orders, ticks, runs, fired>>

\* the reply "Trade plan set" returns and the task completes, or it throws and
\* the router cleans the task up
PlanReplyReturn(h) ==
  /\ procs[h].pc = "plan_reply"
  /\ LET me == procs[h]
     IN /\ userStates' = clearTask(userStates, me.userId)
        /\ \E replyOk \in BOOLEAN :
             out' = [kind |-> "plan_set", userId |-> me.userId, symbol |-> me.symbol,
                     plan |-> me.plan, delivered |-> replyOk]
  /\ procs' = [procs EXCEPT ![h] = Idle]
  /\ UNCHANGED <<sandbox, requests, sendFn, alerts, pendingFills, priceHistory, orders, nextPlan,
                 ticks, runs, fired>>

\* "/trade cancel TICKER" from a user with no active task
TradeCancel(u, sym) ==
  /\ ~hasActiveTask(userStates, u)
  /\ LET r == removeAlert(alerts, priceHistory, sym, u)
     IN /\ r.existed
        /\ alerts' = r.alerts
        /\ priceHistory' = r.hist
  /\ out' = [kind |-> "alert_removed", userId |-> u, symbol |-> sym,
             plan |-> alerts[IndexOf(alerts, toUpperCase(sym), u, 1)].id]
  /\ UNCHANGED <<sandbox, requests, sendFn, pendingFills, userStates, orders, procs, nextPlan,
                 ticks, runs, fired>>


\* "/trade cancel TICKER" for a ticker the user has no plan for: removeAlert
\* returns false and the reply says so
TradeCancelMissing(u, sym) ==
  /\ ~hasActiveTask(userStates, u)
  /\ LET r == removeAlert(alerts, priceHistory, sym, u)
     IN /\ ~r.existed
        /\ alerts' = r.alerts
        /\ priceHistory' = r.hist
  /\ out' = [kind |-> "alert_not_found", userId |-> u, symbol |-> sym]
  /\ UNCHANGED <<sandbox, requests, sendFn, pendingFills, userStates, orders, procs, nextPlan,
                 ticks, runs, fired>>

\* ------------------------------------------------------ the monitor: prices
RECURSIVE SymIndex(_, _, _)
\* index of the bySymbol entry of a symbol, else 0
SymIndex(bs, sym, from) ==
  IF from > Len(bs) THEN 0
  ELSE IF bs[from].symbol = sym THEN from
  ELSE SymIndex(bs, sym, from + 1)

\* variant of GroupBySymbol with a plausible bug: all the plans end in the
\* group of the first plan's symbol
GroupBySymbol_OneGroup(as, acc) ==
  IF as = <<>> THEN acc ELSE <<[symbol |-> as[1].symbol, plans |-> as]>>

RECURSIVE GroupBySymbol(_, _)
\* _checkPrices' bySymbol: the plans grouped by symbol, in the registry's order
GroupBySymbol(as, acc) ==
  IF as = <<>> THEN acc
  ELSE LET p == Head(as)
           i == SymIndex(acc, p.symbol, 1)
       IN GroupBySymbol(Tail(as),
            IF i = 0 THEN Append(acc, [symbol |-> p.symbol, plans |-> <<p>>])
            ELSE [acc EXCEPT ![i].plans = Append(@, p)])

InZone(plan, price) == Ge(price, plan.buyLow) /\ Le(price, plan.buyHigh)

RECURSIVE NextInZone(_, _, _)
\* the next plan of the group, from index `from` on, whose zone holds the price
NextInZone(plans, from, price) ==
  IF from > Len(plans) THEN 0
  ELSE IF InZone(plans[from], price) THEN from
  ELSE NextInZone(plans, from + 1, price)

\* _checkFills' loop: the entry the live Map iterator yields next, or the end of
\* the tick.  nxt is the iterator's position in the registry.
FillsStep(pf, nxt) ==
  IF nxt <= Len(pf)
  THEN [pc |-> "status", via |-> "tick", fill |-> pf[nxt], nxt |-> nxt + 1]
  ELSE Idle

\* variant of ConfirmData with a plausible bug: the top of the buy zone is
\* stored as the trigger price
ConfirmData_ZoneAsTrigger(plan, price, qty) ==
  [symbol |-> plan.symbol, buyLow |-> plan.buyLow, buyHigh |-> plan.buyHigh,
   takeProfit |-> plan.takeProfit, stopLoss |-> plan.stopLoss,
   budget |-> plan.budget, qty |-> plan.qty,
   triggerPrice |-> plan.buyHigh, calcQty |-> qty, plan |-> plan.id]

\* the task data _fireAlert hands to the confirmation step
ConfirmData(plan, price, qty) ==
  [symbol |-> plan.symbol, buyLow |-> plan.buyLow, buyHigh |-> plan.buyHigh,
   takeProfit |-> plan.takeProfit, stopLoss |-> plan.stopLoss,
   budget |-> plan.budget, qty |-> plan.qty,
   triggerPrice |-> price, calcQty |-> qty, plan |-> plan.id]

\* variant of _fireAlert with a plausible bug: the confirmation task is set up
\* whether or not the user has an active task
_fireAlert_AlwaysStarts(as, hist, us, plan, price) ==
  LET r == removeAlert(as, hist, plan.symbol, plan.userId)
      qty == OrderQty(plan.budget, plan.qty, price)
  IN [alerts |-> r.alerts,
      hist |-> r.hist,
      qty |-> qty,
      us |-> updateTask(startTask(us, plan.userId, "/trade",
                                  ConfirmData(plan, price, qty)),
                        plan.userId, "awaiting_confirmation", EmptyData)]

\* _fireAlert up to its await of sendFn: the alert is removed, the quantity
\* computed and, for an idle user, the confirmation task set up.
\* [alerts, hist, us, qty]
_fireAlert(as, hist, us, plan, price) ==
  LET r == removeAlert(as, hist, plan.symbol, plan.userId)
      qty == OrderQty(plan.budget, plan.qty, price)
  IN [alerts |-> r.alerts,
      hist |-> r.hist,
      qty |-> qty,
      us |-> IF ~hasActiveTask(us, plan.userId)
             THEN updateTask(startTask(us, plan.userId, "/trade",
                                       ConfirmData(plan, price, qty)),
                             plan.userId, "awaiting_confirmation", EmptyData)
             ELSE us]

\* _checkPrices from plan `from` of group si on, with the group's fetched price:
\* up to the next await (the send of a fired alert, the next symbol's fetch, or
\* the first status query of _checkFills).
ContinuePrices(t, bs, si, from, price, hist) ==
  LET j == NextInZone(bs[si].plans, from, price)
  IN IF j # 0
     THEN LET plan == bs[si].plans[j]
              f == _fireAlert(alerts, hist, userStates, plan, price)
          IN /\ alerts' = f.alerts
             /\ priceHistory' = f.hist
             /\ userStates' = f.us
             /\ fired' = [fired EXCEPT ![plan.id] = @ + 1]
             /\ procs' = [procs EXCEPT ![t] =
                            [pc |-> "fire_send", bs |-> bs, si |-> si, pi |-> j,
                             price |-> price, qty |-> f.qty]]
     ELSE /\ priceHistory' = hist
          /\ procs' = [procs EXCEPT ![t] =
                         IF si < Len(bs) THEN [pc |-> "fetch", bs |-> bs, si |-> si + 1]
                         ELSE FillsStep(pendingFills, 1)]
          /\ UNCHANGED <<alerts, userStates, fired>>

\* initAlertMonitor(send): sendFn is set and the cron job scheduled
initAlertMonitor ==
  /\ ~sendFn
  /\ sendFn' = TRUE
  /\ UNCHANGED <<sandbox, requests, alerts, pendingFills, priceHistory, userStates, orders, procs,
                 nextPlan, ticks, runs, fired, out>>

\* the two tick slots are interchangeable: a new run takes the first idle one
FirstIdleSlot(t) == t = "t1" \/ procs["t1"] # Idle

\* The cron callback starts: node-cron runs it every minute, whether or not an
\* earlier run has returned.  _checkPrices runs to its first await.
TimerFire(t) ==
  /\ sendFn
  /\ procs[t] = Idle
  /\ FirstIdleSlot(t)
  /\ ticks < MaxTicks
  /\ ticks' = ticks + 1
  /\ procs' = [procs EXCEPT ![t] =
                 IF alerts = <<>> THEN FillsStep(pendingFills, 1)
                 ELSE [pc |-> "fetch", bs |-> GroupBySymbol(alerts, <<>>), si |-> 1]]
  /\ out' = NoOut
  /\ UNCHANGED <<sandbox, requests, sendFn, alerts, pendingFills, priceHistory, userStates, orders,
                 nextPlan, runs, fired>>

\* what _checkPrices logs when a symbol gets no price
NoPrice(t, sym) == [kind |-> "no_price", by |-> t, symbol |-> sym]

\* variant of FetchReturn with a plausible bug: a symbol without a price ends
\* the price check of the timer run (return instead of continue)
FetchReturn_GivesUp(t) ==
  /\ procs[t].pc = "fetch"
  /\ LET bs == procs[t].bs
         si == procs[t].si
     IN \/ /\ procs' = [procs EXCEPT ![t] = FillsStep(pendingFills, 1)]
           /\ out' = NoPrice(t, bs[si].symbol)
           /\ UNCHANGED <<alerts, priceHistory, userStates, fired>>
        \/ /\ \E price \in QuotePrices :
                ContinuePrices(t, bs, si, 1, price,
                               _recordPrice(priceHistory, bs[si].symbol, price))
           /\ out' = NoOut
  /\ UNCHANGED <<sandbox, requests, sendFn, pendingFills, orders, nextPlan, ticks, runs>>

\* fetchStockQuote returns to _checkPrices: no price (throw, error, null price)
\* is logged and skips the symbol; a price is recorded and the group's plans
\* are evaluated.
FetchReturn(t) ==
  /\ procs[t].pc = "fetch"
  /\ LET bs == procs[t].bs
         si == procs[t].si
     IN \/ /\ procs' = [procs EXCEPT ![t] =
                          IF si < Len(bs) THEN [pc |-> "fetch", bs |-> bs, si |-> si + 1]
                          ELSE FillsStep(pendingFills, 1)]
           /\ out' = NoPrice(t, bs[si].symbol)
           /\ UNCHANGED <<alerts, priceHistory, userStates, fired>>
        \/ /\ \E price \in QuotePrices :
                ContinuePrices(t, bs, si, 1, price,
                               _recordPrice(priceHistory, bs[si].symbol, price))
           /\ out' = NoOut
  /\ UNCHANGED <<sandbox, requests, sendFn, pendingFills, orders, nextPlan, ticks, runs>>

\* variant of FireSendReturn with a plausible bug: a throw of sendFn is not
\* caught in _fireAlert and ends the timer run in the catch of the cron callback
FireSendReturn_Throws(t) ==
  /\ procs[t].pc = "fire_send"
  /\ LET me == procs[t]
         plan == me.bs[me.si].plans[me.pi]
     IN \E delivered \in BOOLEAN :
          /\ out' = [kind |-> "alert", userId |-> plan.userId, symbol |-> plan.symbol,
                     plan |-> plan.id, price |-> me.price, qty |-> me.qty,
                     delivered |-> delivered]
          /\ IF delivered
             THEN ContinuePrices(t, me.bs, me.si, me.pi + 1, me.price, priceHistory)
             ELSE /\ procs' = [procs EXCEPT ![t] = Idle]
                  /\ UNCHANGED <<alerts, priceHistory, userStates, fired>>
  /\ UNCHANGED <<sandbox, requests, sendFn, pendingFills, orders, nextPlan, ticks, runs>>

\* sendFn returns (or throws, which _fireAlert catches) to _fireAlert; the loop
\* over the group's plans goes on.
FireSendReturn(t) ==
  /\ procs[t].pc = "fire_send"
  /\ LET me == procs[t]
         plan == me.bs[me.si].plans[me.pi]
     IN /\ \E delivered \in BOOLEAN :
             out' = [kind |-> "alert", userId |-> plan.userId, symbol |-> plan.symbol,
                     plan |-> plan.id, price |-> me.price, qty |-> me.qty,
                     delivered |-> delivered]
        /\ ContinuePrices(t, me.bs, me.si, me.pi + 1, me.price, priceHistory)
  /\ UNCHANGED <<sandbox, requests, sendFn, pendingFills, orders, nextPlan, ticks, runs>>


\* ------------------------------------------------------------ order service
\* An order as the broker holds it.  buy, run and polled are history: for a
\* SELL, the BUY whose fill it is an exit of, the _placeFillExits run that
\* placed it and the status that run had polled ("none": the run polled
\* nothing); 0, 0, "none" for a BUY.
Order(action, sym, qty, priceType, price, buy, run, polled) ==
  [action |-> action, symbol |-> sym, qty |-> qty, priceType |-> priceType,
   price |-> price, status |-> "OPEN", buy |-> buy, run |-> run, polled |-> polled]

\* getOrders(accountIdKey, {count: 25}): the ids of the most recent orders
RecentIds == {i \in 1..Len(orders) : i > Len(orders) - ORDER_COUNT}

\* getOrderStatus: the status of the order with that id among the recent
\* orders, "null" when there is none (String(null) matches no order id)
getOrderStatus(os, buyOrderId) ==
  IF buyOrderId # None /\ buyOrderId[1] \in RecentIds
  THEN os[buyOrderId[1]].status
  ELSE "null"

\* The broker's side of a live BUY: OPEN may have become partially filled,
\* EXECUTED, CANCELLED or EXPIRED since it was last looked at; the last three
\* are final.  Only a status query observes the status, so the broker's move
\* is taken when the order list is fetched.
StatusMoves(st) ==
  IF st = "OPEN" THEN {"OPEN", "PARTIAL", "EXECUTED", "CANCELLED", "EXPIRED"}
  ELSE IF st = "PARTIAL" THEN {"PARTIAL", "EXECUTED"}
  ELSE {st}

\* What getOrders gives _verifyOrders: it throws (None), or returns a list of
\* recent orders, which holds the orders just placed or does not hold them
\* yet (the sandbox answers with a fixed list).
Listings(os) ==
  {None, Some({}), Some({i \in 1..Len(os) : i > Len(os) - ORDER_COUNT})}

\* _verifyOrders: for each id, whether the fetched list holds it; nothing is
\* found when the fetch throws
_verifyOrders(listing, orderIds) ==
  [id \in orderIds |-> listing # None /\ id \in listing[1]]

\* the SELLs a run of placeExitOrders has placed
ExitIds(os, run) ==
  {i \in 1..Len(os) : os[i].action = "SELL" /\ os[i].run = run}

\* ------------------------------------------------------- previewThenPlace
\* shortOrderId: 10 random bytes; two values, so that two submissions can
\* also draw the same one
ClientIds == {"c1", "c2"}

\* the preview ids the broker hands out (0 is an id like any other)
BrokerPreviewIds == {0, 7}

buildInstrument(symbol, qty, action) ==
  [symbol |-> symbol, orderAction |-> action, quantity |-> qty]

buildOrderDetail(priceType, price, instrument) ==
  [priceType |-> priceType, price |-> price, Instrument |-> instrument]

\* the order details submitted where previewThenPlace itself is examined
OrderDetails ==
  { buildOrderDetail("LIMIT", 20, buildInstrument("AAPL", 3, "BUY")),
    buildOrderDetail("STOP", 10, buildInstrument("AAPL", 3, "SELL")) }

\* the entries of the broker's log; sub is history: the number of the
\* previewThenPlace call the entry belongs to
PreviewRequest(sub, cid, detail) ==
  [op |-> "preview", sub |-> sub, clientOrderId |-> cid, detail |-> detail]

PreviewReply(sub, previewId) ==
  [op |-> "previewed", sub |-> sub, previewId |-> previewId]

PlaceRequest(sub, cid, previewId, detail) ==
  [op |-> "place", sub |-> sub, clientOrderId |-> cid, previewId |-> previewId,
   detail |-> detail]

Previews == {i \in 1..Len(requests) : requests[i].op = "preview"}

\* previewThenPlace up to its await of service.previewOrder
previewThenPlace(p, detail) ==
  /\ procs[p] = Idle
  /\ Len(requests) < MaxRequests
  /\ \E cid \in ClientIds :
       LET sub == Cardinality(Previews) + 1
       IN /\ requests' = Append(requests, PreviewRequest(sub, cid, detail))
          /\ procs' = [procs EXCEPT ![p] = [pc |-> "preview", sub |-> sub,
                                            clientOrderId |-> cid, detail |-> detail]]
  /\ out' = NoOut
  /\ UNCHANGED <<sandbox, sendFn, alerts, pendingFills, priceHistory, userStates, orders,
                 nextPlan, ticks, runs, fired>>

\* variant of PreviewReturn with a plausible bug: a preview without an id is
\* placed all the same
PreviewReturn_PlacesAnyway(p) ==
  /\ procs[p].pc = "preview"
  /\ LET me == procs[p]
     IN \/ \E id \in BrokerPreviewIds :
             /\ requests' = requests \o
                   << PreviewReply(me.sub, Some(id)),
                      PlaceRequest(me.sub, me.clientOrderId, Some(id), me.detail) >>
             /\ procs' = [procs EXCEPT ![p].pc = "place"]
             /\ out' = NoOut
        \/ /\ requests' = requests \o
                  << PreviewReply(me.sub, None),
                     PlaceRequest(me.sub, me.clientOrderId, None, me.detail) >>
           /\ procs' = [procs EXCEPT ![p].pc = "place"]
           /\ out' = NoOut
        \/ /\ procs' = [procs EXCEPT ![p] = Idle]
           /\ out' = [kind |-> "order_error", sub |-> me.sub, why |-> "preview_threw"]
           /\ UNCHANGED requests
  /\ UNCHANGED <<sandbox, sendFn, alerts, pendingFills, priceHistory, userStates, orders,
                 nextPlan, ticks, runs, fired>>

\* service.previewOrder returns to previewThenPlace, with or without a preview
\* id, or throws: with an id the order is placed under the same client order
\* id; without one previewThenPlace throws "Preview returned no previewId"
PreviewReturn(p) ==
  /\ procs[p].pc = "preview"
  /\ LET me == procs[p]
     IN \/ \E id \in BrokerPreviewIds :
             /\ requests' = requests \o
                   << PreviewReply(me.sub, Some(id)),
                      PlaceRequest(me.sub, me.clientOrderId, Some(id), me.detail) >>
             /\ procs' = [procs EXCEPT ![p].pc = "place"]
             /\ out' = NoOut
        \/ /\ requests' = Append(requests, PreviewReply(me.sub, None))
           /\ procs' = [procs EXCEPT ![p] = Idle]
           /\ out' = [kind |-> "order_error", sub |-> me.sub, why |-> "no_preview_id"]
        \/ /\ procs' = [procs EXCEPT ![p] = Idle]
           /\ out' = [kind |-> "order_error", sub |-> me.sub, why |-> "preview_threw"]
           /\ UNCHANGED requests
  /\ UNCHANGED <<sandbox, sendFn, alerts, pendingFills, priceHistory, userStates, orders,
                 nextPlan, ticks, runs, fired>>

\* service.placeOrder returns to previewThenPlace, which returns the order id
\* of the response or null, or throws
PlaceReturn(p) ==
  /\ procs[p].pc = "place"
  /\ LET me == procs[p]
         d == me.detail
     IN \/ /\ Len(orders) < MaxOrders
           /\ orders' = Append(orders, Order(d.Instrument.orderAction, d.Instrument.symbol,
                                             d.Instrument.quantity, d.priceType, d.price,
                                             0, 0, "none"))
           /\ \E withId \in BOOLEAN :
                out' = [kind |-> "order_placed", sub |-> me.sub,
                        orderId |-> IF withId THEN Some(Len(orders) + 1) ELSE None]
        \/ /\ out' = [kind |-> "order_error", sub |-> me.sub, why |-> "place_threw"]
           /\ UNCHANGED orders
  /\ procs' = [procs EXCEPT ![p] = Idle]
  /\ UNCHANGED <<sandbox, sendFn, alerts, pendingFills, priceHistory, userStates,
                 requests, nextPlan, ticks, runs, fired>>

\* --------------------------------------------------- pending-fill registry
addPendingFill(pf, fill) == MapSet(pf, fill)

\* pendingFills.delete(key), seen by the live iterators of the running
\* _checkFills loops: an entry removed before an iterator's position moves
\* that position down.
DeleteFillProcs(ps, pf, sym, usr) ==
  LET d == IndexOf(pf, sym, usr, 1)
  IN [p \in Procs |->
        IF d # 0 /\ "nxt" \in DOMAIN ps[p] /\ d < ps[p].nxt
        THEN [ps[p] EXCEPT !.nxt = @ - 1]
        ELSE ps[p]]

\* variant of removePendingFill with a plausible bug: the entry is reported
\* as removed and stays in the registry
removePendingFill_KeepsEntry(pf, sym, usr) ==
  [existed |-> IndexOf(pf, toUpperCase(sym), usr, 1) # 0,
   pendingFills |-> pf]

\* removePendingFill(symbol, userId): [existed, pendingFills]
removePendingFill(pf, sym, usr) ==
  [existed |-> IndexOf(pf, toUpperCase(sym), usr, 1) # 0,
   pendingFills |-> MapDelete(pf, toUpperCase(sym), usr)]

\* A call of the exported removePendingFill; buy is history: the BUY of the
\* entry that was found (0: none).
RemovePendingFill(u, sym) ==
  /\ LET r == removePendingFill(pendingFills, sym, u)
         i == IndexOf(pendingFills, toUpperCase(sym), u, 1)
     IN /\ pendingFills' = r.pendingFills
        /\ procs' = IF r.pendingFills = pendingFills THEN procs
                    ELSE DeleteFillProcs(procs, pendingFills, toUpperCase(sym), u)
        /\ out' = [kind |-> "fill_removed", userId |-> u, symbol |-> sym,
                   existed |-> r.existed,
                   buy |-> IF i # 0 THEN pendingFills[i].buy ELSE 0]
  /\ UNCHANGED <<sandbox, requests, sendFn, alerts, priceHistory, userStates, orders,
                 nextPlan, ticks, runs, fired>>

\* --------------------------------------------------------- _placeFillExits
\* What follows _placeFillExits for the activity that ran it: the tick goes on
\* with its _checkFills loop, forceTriggerFill returns and the task completes.
AfterExits(p, ps, pf) ==
  [ps EXCEPT ![p] = IF ps[p].via = "tick" THEN FillsStep(pf, ps[p].nxt) ELSE Idle]

AfterExitsTask(me, us) ==
  IF me.via = "force" THEN clearTask(us, me.fill.userId) ELSE us

ExitNote(kind, me, delivered) ==
  [kind |-> kind, userId |-> me.fill.userId, symbol |-> me.fill.symbol,
   qty |-> me.fill.qty, takeProfit |-> me.fill.takeProfit,
   stopLoss |-> me.fill.stopLoss, buy |-> me.fill.buy, run |-> me.run,
   via |-> me.via, verification |-> me.verification, delivered |-> delivered]

\* variant of TpReturn with a plausible bug: a failed placement ends the run
\* without telling anyone
TpReturn_Silent(p) ==
  /\ procs[p].pc = "tp"
  /\ LET me == procs[p]
     IN \/ /\ Len(orders) < MaxOrders
           /\ orders' = Append(orders, Order("SELL", me.fill.symbol, me.fill.qty, "LIMIT",
                                             me.fill.takeProfit, me.fill.buy, me.run,
                                             me.polled))
           /\ procs' = [procs EXCEPT ![p].pc = "sl"]
        \/ /\ procs' = AfterExits(p, procs, pendingFills)
           /\ UNCHANGED orders
  /\ out' = NoOut
  /\ UNCHANGED <<sandbox, requests, sendFn, alerts, pendingFills, priceHistory, userStates,
                 nextPlan, ticks, runs, fired>>

\* previewThenPlace of the take-profit LIMIT SELL returns to placeExitOrders, or
\* throws into the catch of _placeFillExits
TpReturn(p) ==
  /\ procs[p].pc = "tp"
  /\ LET me == procs[p]
     IN \/ /\ Len(orders) < MaxOrders
           /\ orders' = Append(orders, Order("SELL", me.fill.symbol, me.fill.qty, "LIMIT",
                                             me.fill.takeProfit, me.fill.buy, me.run,
                                             me.polled))
           /\ procs' = [procs EXCEPT ![p].pc = "sl"]
        \/ /\ procs' = [procs EXCEPT ![p].pc = "manual_send"]
           /\ UNCHANGED orders
  /\ out' = NoOut
  /\ UNCHANGED <<sandbox, requests, sendFn, alerts, pendingFills, priceHistory, userStates,
                 nextPlan, ticks, runs, fired>>

\* variant of SlReturn with a plausible bug: the stop is placed at the
\* take-profit price
SlReturn_WrongPrice(p) ==
  /\ procs[p].pc = "sl"
  /\ LET me == procs[p]
     IN \/ /\ Len(orders) < MaxOrders
           /\ orders' = Append(orders, Order("SELL", me.fill.symbol, me.fill.qty, "STOP",
                                             me.fill.takeProfit, me.fill.buy, me.run,
                                             me.polled))
           /\ \E listing \in Listings(orders') :
                procs' = [procs EXCEPT ![p] =
                            [me EXCEPT !.pc = "ok_send",
                                       !.verification =
                                          _verifyOrders(listing, ExitIds(orders', me.run))]]
        \/ /\ procs' = [procs EXCEPT ![p].pc = "manual_send"]
           /\ UNCHANGED orders
  /\ out' = NoOut
  /\ UNCHANGED <<sandbox, requests, sendFn, alerts, pendingFills, priceHistory, userStates,
                 nextPlan, ticks, runs, fired>>

\* previewThenPlace of the stop-loss STOP SELL returns to placeExitOrders,
\* which verifies the two orders and returns, or throws into the catch of
\* _placeFillExits
SlReturn(p) ==
  /\ procs[p].pc = "sl"
  /\ LET me == procs[p]
     IN \/ /\ Len(orders) < MaxOrders
           /\ orders' = Append(orders, Order("SELL", me.fill.symbol, me.fill.qty, "STOP",
                                             me.fill.stopLoss, me.fill.buy, me.run,
                                             me.polled))
           /\ \E listing \in Listings(orders') :
                procs' = [procs EXCEPT ![p] =
                            [me EXCEPT !.pc = "ok_send",
                                       !.verification =
                                          _verifyOrders(listing, ExitIds(orders', me.run))]]
        \/ /\ procs' = [procs EXCEPT ![p].pc = "manual_send"]
           /\ UNCHANGED orders
  /\ out' = NoOut
  /\ UNCHANGED <<sandbox, requests, sendFn, alerts, pendingFills, priceHistory, userStates,
                 nextPlan, ticks, runs, fired>>

\* the send of "BUY FILLED ... Exit orders placed" returns; a throw lands in the
\* catch of _placeFillExits, which sends the manual instructions
OkSendReturn(p) ==
  /\ procs[p].pc = "ok_send"
  /\ LET me == procs[p]
     IN \E delivered \in BOOLEAN :
          /\ out' = ExitNote("exits_placed", me, delivered)
          /\ IF delivered
             THEN /\ procs' = AfterExits(p, procs, pendingFills)
                  /\ userStates' = AfterExitsTask(me, userStates)
             ELSE /\ procs' = [procs EXCEPT ![p].pc = "manual_send"]
                  /\ UNCHANGED userStates
  /\ UNCHANGED <<sandbox, requests, sendFn, alerts, pendingFills, priceHistory, orders,
                 nextPlan, ticks, runs, fired>>

\* variant of ManualSendReturn with a plausible bug: a throw of the manual
\* notice escapes the loop of _checkFills and ends the timer run
ManualSendReturn_Escapes(p) ==
  /\ procs[p].pc = "manual_send"
  /\ LET me == procs[p]
     IN \E delivered \in BOOLEAN :
          /\ out' = ExitNote("manual", me, delivered)
          /\ procs' = IF delivered THEN AfterExits(p, procs, pendingFills)
                      ELSE [procs EXCEPT ![p] = Idle]
          /\ userStates' = AfterExitsTask(me, userStates)
  /\ UNCHANGED <<sandbox, requests, sendFn, alerts, pendingFills, priceHistory, orders,
                 nextPlan, ticks, runs, fired>>

\* the send of "exit orders failed ... Please manually place" returns or throws
ManualSendReturn(p) ==
  /\ procs[p].pc = "manual_send"
  /\ LET me == procs[p]
     IN /\ \E delivered \in BOOLEAN : out' = ExitNote("manual", me, delivered)
        /\ procs' = AfterExits(p, procs, pendingFills)
        /\ userStates' = AfterExitsTask(me, userStates)
  /\ UNCHANGED <<sandbox, requests, sendFn, alerts, pendingFills, priceHistory, orders,
                 nextPlan, ticks, runs, fired>>

\* ------------------------------------------------------- the monitor: fills
\* The proc record of an activity that enters _placeFillExits for a fill.
ExitsProc(via, fill, nxt, run, polled) ==
  [pc |-> "tp", via |-> via, fill |-> fill, nxt |-> nxt, run |-> run, polled |-> polled,
   verification |-> <<>>]

\* variants of FillVerdict with a plausible bug: a live BUY taken for a filled
\* one; a cancelled BUY taken for a filled one; a live BUY taken for a dead one
FillVerdict_OpenExits(status) ==
  IF status = "EXECUTED" \/ status = "OPEN" THEN "exits"
  ELSE IF status = "CANCELLED" \/ status = "EXPIRED" THEN "abort"
  ELSE "keep"

FillVerdict_CancelledExits(status) ==
  IF status = "EXECUTED" \/ status = "CANCELLED" THEN "exits"
  ELSE IF status = "EXPIRED" THEN "abort"
  ELSE "keep"

FillVerdict_PartialAborts(status) ==
  IF status = "EXECUTED" THEN "exits"
  ELSE IF status = "CANCELLED" \/ status = "EXPIRED" \/ status = "PARTIAL" THEN "abort"
  ELSE "keep"

\* _checkFills on the status it read for an entry: "exits", "abort" or "keep"
FillVerdict(status) ==
  IF status = "EXECUTED" THEN "exits"
  ELSE IF status = "CANCELLED" \/ status = "EXPIRED" THEN "abort"
  ELSE "keep"

\* getOrderStatus returns to _checkFills (or throws: logged, next entry)
StatusReturn(t) ==
  /\ procs[t].pc = "status"
  /\ LET me == procs[t]
         fill == me.fill
         ps == DeleteFillProcs(procs, pendingFills, fill.symbol, fill.userId)
         pf == MapDelete(pendingFills, fill.symbol, fill.userId)
     IN \E st \in StatusMoves(orders[fill.buy].status), threw \in BOOLEAN :
          LET os == [orders EXCEPT ![fill.buy].status = st]
              status == IF threw THEN "threw" ELSE getOrderStatus(os, fill.buyOrderId)
              verdict == FillVerdict(status)
          IN /\ orders' = os
             /\ pendingFills' = IF verdict = "keep" THEN pendingFills ELSE pf
             /\ runs' = IF verdict = "exits" THEN runs + 1 ELSE runs
             /\ procs' =
                  IF verdict = "exits"
                  THEN [ps EXCEPT ![t] = ExitsProc("tick", fill, ps[t].nxt, runs + 1, status)]
                  ELSE IF verdict = "abort"
                  THEN [ps EXCEPT ![t] = [pc |-> "abort_send", via |-> "tick", fill |-> fill,
                                          nxt |-> ps[t].nxt, polled |-> status]]
                  ELSE [procs EXCEPT ![t] = FillsStep(pendingFills, me.nxt)]
             /\ out' = [kind |-> "polled", by |-> t, fill |-> fill, status |-> status]
  /\ UNCHANGED <<sandbox, requests, sendFn, alerts, priceHistory, userStates,
                 nextPlan, ticks, fired>>

\* variant of AbortSendReturn with a plausible bug: a throw of the notice
\* escapes the loop of _checkFills and ends the timer run
AbortSendReturn_Escapes(t) ==
  /\ procs[t].pc = "abort_send"
  /\ LET me == procs[t]
     IN \E delivered \in BOOLEAN :
          /\ out' = [kind |-> "abort", userId |-> me.fill.userId, symbol |-> me.fill.symbol,
                     buy |-> me.fill.buy, status |-> me.polled, delivered |-> delivered]
          /\ procs' = [procs EXCEPT ![t] = IF delivered THEN FillsStep(pendingFills, me.nxt)
                                           ELSE Idle]
  /\ UNCHANGED <<sandbox, requests, sendFn, alerts, pendingFills, priceHistory, userStates, orders,
                 nextPlan, ticks, runs, fired>>

\* the send of "Your BUY order was CANCELLED/EXPIRED" returns or throws
AbortSendReturn(t) ==
  /\ procs[t].pc = "abort_send"
  /\ LET me == procs[t]
     IN /\ \E delivered \in BOOLEAN :
             out' = [kind |-> "abort", userId |-> me.fill.userId, symbol |-> me.fill.symbol,
                     buy |-> me.fill.buy, status |-> me.polled, delivered |-> delivered]
        /\ procs' = [procs EXCEPT ![t] = FillsStep(pendingFills, me.nxt)]
  /\ UNCHANGED <<sandbox, requests, sendFn, alerts, pendingFills, priceHistory, userStates, orders,
                 nextPlan, ticks, runs, fired>>

\* "/trade fill TICKER" (sandbox): forceTriggerFill takes the entry and places
\* the exits without any status check
forceTriggerFill(u, sym, h) ==
  /\ sandbox
  /\ ~hasActiveTask(userStates, u)
  /\ procs[h] = Idle /\ FirstIdleHandler(h)
  /\ LET i == IndexOf(pendingFills, sym, u, 1)
         ps == DeleteFillProcs(procs, pendingFills, sym, u)
     IN /\ i # 0
        /\ pendingFills' = MapDelete(pendingFills, sym, u)
        /\ runs' = runs + 1
        /\ procs' = [ps EXCEPT ![h] =
                       ExitsProc("force", pendingFills[i], 0, runs + 1, "none")]
        /\ userStates' = startTask(userStates, u, "/trade", EmptyData)
  /\ out' = NoOut
  /\ UNCHANGED <<sandbox, requests, sendFn, alerts, priceHistory, orders, nextPlan, ticks, fired>>

\* ------------------------------------------------------ handleConfirmation
\* The task data as handleConfirmation destructures it: a property the data
\* lacks is undefined (the data of an unrelated task instance, reached through
\* awaiting_pin, holds no plan), and arithmetic on undefined gives NaN.
HasPlan(d) == "triggerPrice" \in DOMAIN d

ConfirmQty(d) == IF HasPlan(d) THEN OrderQty(d.budget, d.qty, d.triggerPrice) ELSE NaN

DataSymbol(d) == IF "symbol" \in DOMAIN d THEN d.symbol ELSE "undefined"

BuyProc(u, d) ==
  [pc |-> "buy", userId |-> u, symbol |-> DataSymbol(d), qty |-> ConfirmQty(d),
   hasPlan |-> HasPlan(d),
   price |-> IF HasPlan(d) THEN d.triggerPrice ELSE NaN,
   takeProfit |-> IF HasPlan(d) THEN d.takeProfit ELSE NaN,
   stopLoss |-> IF HasPlan(d) THEN d.stopLoss ELSE NaN]

\* "confirm" while the task awaits confirmation, up to the await of
\* placeBuyOrder; a non-positive quantity ends the task with nothing placed.
Confirm(u, h) ==
  /\ userStates[u].activeTask = "/trade"
  /\ userStates[u].taskState = "awaiting_confirmation"
  /\ procs[h] = Idle /\ FirstIdleHandler(h)
  /\ LET d == userStates[u].data
     IN IF Le(ConfirmQty(d), 0)
        THEN /\ userStates' = clearTask(userStates, u)
             /\ out' = [kind |-> "qty_zero", userId |-> u, symbol |-> DataSymbol(d)]
             /\ UNCHANGED procs
        ELSE \E replyOk \in BOOLEAN :
               /\ out' = NoOut
               /\ IF replyOk
                  THEN /\ procs' = [procs EXCEPT ![h] = BuyProc(u, d)]
                       /\ UNCHANGED userStates
                  ELSE /\ userStates' = clearTask(userStates, u)
                       /\ UNCHANGED procs
  /\ UNCHANGED <<sandbox, requests, sendFn, alerts, pendingFills, priceHistory, orders,
                 nextPlan, ticks, runs, fired>>

\* "cancel" while the task awaits confirmation
Dismiss(u) ==
  /\ userStates[u].activeTask = "/trade"
  /\ userStates[u].taskState = "awaiting_confirmation"
  /\ userStates' = clearTask(userStates, u)
  /\ out' = [kind |-> "dismissed", userId |-> u]
  /\ UNCHANGED <<sandbox, requests, sendFn, alerts, pendingFills, priceHistory, orders, procs,
                 nextPlan, ticks, runs, fired>>

\* the entry handleConfirmation registers; buy is history: the broker's index
\* of the BUY, also when the response carried no order id
FillOf(me, buyOrderId, buy) ==
  [symbol |-> me.symbol, userId |-> me.userId, buyOrderId |-> buyOrderId,
   accountIdKey |-> "acct", qty |-> me.qty, takeProfit |-> me.takeProfit,
   stopLoss |-> me.stopLoss, buy |-> buy]

\* variant of BuyReturn with a plausible bug: an order that _verifyOrders does
\* not find makes placeBuyOrder throw
BuyReturn_VerifyThrows(h) ==
  /\ procs[h].pc = "buy"
  /\ LET me == procs[h]
         u == me.userId
         b == Len(orders) + 1
     IN \/ /\ me.hasPlan
           /\ Len(orders) < MaxOrders
           /\ orders' = Append(orders, Order("BUY", me.symbol, me.qty, "LIMIT", me.price,
                                             0, 0, "none"))
           /\ \E withId \in BOOLEAN, listing \in Listings(orders') :
                LET v == _verifyOrders(listing, IF withId THEN {b} ELSE {})
                IN IF \A id \in DOMAIN v : v[id]
                   THEN /\ procs' = [procs EXCEPT ![h] =
                                       [pc |-> "placed_reply",
                                        fill |-> FillOf(me, IF withId THEN Some(b) ELSE None, b),
                                        verification |-> v]]
                        /\ out' = NoOut
                        /\ UNCHANGED userStates
                   ELSE /\ userStates' = clearTask(userStates, u)
                        /\ out' = [kind |-> "buy_failed", userId |-> u, symbol |-> me.symbol]
                        /\ procs' = [procs EXCEPT ![h] = Idle]
        \/ /\ \E reAuthOk \in BOOLEAN :
                userStates' = IF reAuthOk
                              THEN updateTask(userStates, u, "awaiting_pin", EmptyData)
                              ELSE clearTask(userStates, u)
           /\ out' = [kind |-> "reauth", userId |-> u]
           /\ procs' = [procs EXCEPT ![h] = Idle]
           /\ UNCHANGED orders
        \/ /\ userStates' = clearTask(userStates, u)
           /\ out' = [kind |-> "buy_failed", userId |-> u, symbol |-> me.symbol]
           /\ procs' = [procs EXCEPT ![h] = Idle]
           /\ UNCHANGED orders
  /\ UNCHANGED <<sandbox, requests, sendFn, alerts, pendingFills, priceHistory, nextPlan, ticks,
                 runs, fired>>

\* placeBuyOrder returns to handleConfirmation, or throws.
\*   placed: the broker took the BUY (its response may lack the order id),
\*     _verifyOrders has looked for it, and the confirmation "BUY ...
\*     Monitoring for fill" is sent; a missing limit price throws before
\*     anything is submitted;
\*   auth: status 401, startReAuth keeps the task in awaiting_pin (or fails);
\*   error: any other failure is reported and the task completed.
BuyReturn(h) ==
  /\ procs[h].pc = "buy"
  /\ LET me == procs[h]
         u == me.userId
         b == Len(orders) + 1
     IN \/ /\ me.hasPlan
           /\ Len(orders) < MaxOrders
           /\ orders' = Append(orders, Order("BUY", me.symbol, me.qty, "LIMIT", me.price,
                                             0, 0, "none"))
           /\ \E withId \in BOOLEAN, listing \in Listings(orders') :
                procs' = [procs EXCEPT ![h] =
                            [pc |-> "placed_reply",
                             fill |-> FillOf(me, IF withId THEN Some(b) ELSE None, b),
                             verification |->
                               _verifyOrders(listing, IF withId THEN {b} ELSE {})]]
           /\ out' = NoOut
           /\ UNCHANGED userStates
        \/ /\ \E reAuthOk \in BOOLEAN :
                userStates' = IF reAuthOk
                              THEN updateTask(userStates, u, "awaiting_pin", EmptyData)
                              ELSE clearTask(userStates, u)
           /\ out' = [kind |-> "reauth", userId |-> u]
           /\ procs' = [procs EXCEPT ![h] = Idle]
           /\ UNCHANGED orders
        \/ /\ userStates' = clearTask(userStates, u)
           /\ out' = [kind |-> "buy_failed", userId |-> u, symbol |-> me.symbol]
           /\ procs' = [procs EXCEPT ![h] = Idle]
           /\ UNCHANGED orders
  /\ UNCHANGED <<sandbox, requests, sendFn, alerts, pendingFills, priceHistory, nextPlan, ticks,
                 runs, fired>>

\* handleConfirmation after the confirmation reply: the pending fill is
\* registered and the task completed; a reply that throws lands in the catch,
\* which reports a failure and completes the task without registering anything.
AfterBuyPlaced(pf, fill, replyOk) ==
  IF replyOk THEN addPendingFill(pf, fill) ELSE pf

PlacedReplyReturn(h) ==
  /\ procs[h].pc = "placed_reply"
  /\ LET fill == procs[h].fill
     IN /\ \E replyOk \in BOOLEAN :
             /\ pendingFills' = AfterBuyPlaced(pendingFills, fill, replyOk)
             /\ out' = [kind |-> "buy_placed", fill |-> fill,
                        verification |-> procs[h].verification, delivered |-> replyOk]
        /\ userStates' = clearTask(userStates, fill.userId)
  /\ procs' = [procs EXCEPT ![h] = Idle]
  /\ UNCHANGED <<sandbox, requests, sendFn, alerts, priceHistory, orders, nextPlan, ticks, runs,
                 fired>>

\* variant of handlePin with a plausible bug: the task comes back from the PIN
\* exchange without its data
handlePin_DropsData(u) ==
  /\ userStates[u].activeTask = "/trade"
  /\ userStates[u].taskState = "awaiting_pin"
  /\ \/ \E replyOk \in BOOLEAN :
          /\ userStates' = IF replyOk
                           THEN updateTask(startTask(userStates, u, "/trade", EmptyData),
                                           u, "awaiting_confirmation", EmptyData)
                           ELSE clearTask(userStates, u)
          /\ out' = [kind |-> "pin_ok", userId |-> u, delivered |-> replyOk]
     \/ /\ userStates' = clearTask(userStates, u)
        /\ out' = [kind |-> "pin_failed", userId |-> u]
  /\ UNCHANGED <<sandbox, requests, sendFn, alerts, pendingFills, priceHistory, orders, procs,
                 nextPlan, ticks, runs, fired>>

\* handlePin: the PIN exchange succeeds and the task is back in
\* awaiting_confirmation (a throw of the reply that says so lands in the catch,
\* which completes the task), or it fails for good and the task is completed;
\* a wrong PIN leaves the task waiting.
handlePin(u) ==
  /\ userStates[u].activeTask = "/trade"
  /\ userStates[u].taskState = "awaiting_pin"
  /\ \/ \E replyOk \in BOOLEAN :
          /\ userStates' = IF replyOk
                           THEN updateTask(userStates, u, "awaiting_confirmation", EmptyData)
                           ELSE clearTask(userStates, u)
          /\ out' = [kind |-> "pin_ok", userId |-> u, delivered |-> replyOk]
     \/ /\ userStates' = clearTask(userStates, u)
        /\ out' = [kind |-> "pin_failed", userId |-> u]
  /\ UNCHANGED <<sandbox, requests, sendFn, alerts, pendingFills, priceHistory, orders, procs,
                 nextPlan, ticks, runs, fired>>

\* ------------------------------------------------------------ specification
Init == InitOf(Users, Symbols)

ActiveUsers == DOMAIN userStates
ActiveSymbols == DOMAIN priceHistory

\* plan registration and cancellation; a user opens a /trade conversation
\* while fewer than cap plans have been registered
PlanSteps(texts, cap, handlers) ==
  \/ \E u \in ActiveUsers, sym \in ActiveSymbols : nextPlan < cap /\ TradeStart(u, sym)
  \/ \E u \in ActiveUsers, text \in texts, h \in handlers : handleParams(u, text, h)
  \/ \E h \in handlers : PlanReplyReturn(h)
  \/ \E u \in ActiveUsers, sym \in ActiveSymbols : TradeCancel(u, sym)

\* the monitor's price check, for the timer runs that can be in progress
PriceSteps(slots) ==
  \/ initAlertMonitor
  \/ \E t \in slots : TimerFire(t)
  \/ \E t \in slots : FetchReturn(t)
  \/ \E t \in slots : FireSendReturn(t)

\* confirmation of a fired alert
ConfirmSteps(handlers) ==
  \/ \E u \in ActiveUsers, h \in handlers : Confirm(u, h)
  \/ \E u \in ActiveUsers : Dismiss(u)
  \/ \E h \in handlers : BuyReturn(h)
  \/ \E h \in handlers : PlacedReplyReturn(h)

\* the monitor's fill check and the exit orders
FillSteps(slots) ==
  \/ \E t \in slots : StatusReturn(t)
  \/ \E t \in slots : AbortSendReturn(t)
  \/ \E p \in Procs : TpReturn(p)
  \/ \E p \in Procs : SlReturn(p)
  \/ \E p \in Procs : OkSendReturn(p)
  \/ \E p \in Procs : ManualSendReturn(p)

ForceSteps(handlers) ==
  \E u \in ActiveUsers, sym \in ActiveSymbols, h \in handlers : forceTriggerFill(u, sym, h)

Next ==
  \/ PlanSteps(PlanTexts, MaxPlans, Handlers)
  \/ PriceSteps(TickSlots)
  \/ ConfirmSteps(Handlers)
  \/ FillSteps(TickSlots)
  \/ ForceSteps(Handlers)
  \/ \E u \in ActiveUsers : handlePin(u)

Spec == Init /\ [][Next]_vars

\* One user trading one symbol, from the plan to the exit orders: one plan,
\* one message handler at a time.
InitTrade == InitOf({"u1"}, {"AAPL"})

NextTrade ==
  \/ PlanSteps(PlanTexts, MaxTradePlans, {"h1"})
  \/ PriceSteps(TickSlots)
  \/ ConfirmSteps({"h1"})
  \/ FillSteps(TickSlots)
  \/ ForceSteps({"h1"})

SpecTrade == InitTrade /\ [][NextTrade]_vars

\* One user trading one symbol again and again, with timer runs that end
\* before the next one starts.
NextRetrade ==
  \/ PlanSteps(RejectTexts, MaxPlans, {"h1"})
  \/ PriceSteps({"t1"})
  \/ ConfirmSteps({"h1"})
  \/ FillSteps({"t1"})

SpecRetrade == InitTrade /\ [][NextRetrade]_vars

\* One user registering and cancelling plans for one symbol, typing anything.
NextPlans == PlanSteps(AllTexts, MaxPlans, {"h1"})

SpecPlans == InitTrade /\ [][NextPlans]_vars

\* One user, one plan of any size, from the plan to the exit orders, with the
\* re-authentication of an expired broker session.
NextConfirm ==
  \/ PlanSteps(QtyTexts, MaxTradePlans, {"h1"})
  \/ PriceSteps({"t1"})
  \/ ConfirmSteps({"h1"})
  \/ FillSteps({"t1"})
  \/ \E u \in ActiveUsers : handlePin(u)

SpecConfirm == InitTrade /\ [][NextConfirm]_vars

\* Two users trading the same symbol with the same plan, so that the monitor
\* has two pending fills to look after in one timer run.
FillTexts == {Text(<<"2">>, <<"3">>, <<"4">>, <<"1">>, "budget", <<"7">>)}

InitFills == InitOf(Users, {"AAPL"})

NextFills ==
  \/ PlanSteps(FillTexts, MaxPlans, {"h1"})
  \/ PriceSteps({"t1"})
  \/ ConfirmSteps({"h1"})
  \/ FillSteps({"t1"})

SpecFills == InitFills /\ [][NextFills]_vars

\* One user watching two symbols: the price check of the monitor.
InitQuotes == InitOf({"u1"}, Symbols)

NextQuotes ==
  \/ PlanSteps(FillTexts, MaxPlans, {"h1"})
  \/ PriceSteps({"t1"})
  \/ \E u \in ActiveUsers : Dismiss(u)

SpecQuotes == InitQuotes /\ [][NextQuotes]_vars

\* Order submissions on their own: the callers of previewThenPlace, two at a
\* time.
NextOrder ==
  \/ \E p \in Handlers, detail \in OrderDetails : previewThenPlace(p, detail)
  \/ \E p \in Handlers : PreviewReturn(p)
  \/ \E p \in Handlers : PlaceReturn(p)

SpecOrder == InitTrade /\ [][NextOrder]_vars

\* Two users registering, replacing and cancelling plans, typing the ticker in
\* any case: start() takes args[0].toLowerCase().toUpperCase() for the symbol,
\* "/trade cancel" takes args[1].toUpperCase().
Tickers == {"AAPL", "aapl", "UBER"}

RegistryTexts ==
  { Text(<<"2">>, <<"3">>, <<"4">>, <<"1">>, "budget", <<"7">>),
    Text(<<"2">>, <<"3">>, <<"4">>, <<"1">>, "qty", <<"2">>) }

NextRegistry ==
  \/ \E u \in ActiveUsers, typed \in Tickers :
       nextPlan < MaxPlans /\ TradeStart(u, toUpperCase(toLowerCase(typed)))
  \/ \E u \in ActiveUsers, text \in RegistryTexts : handleParams(u, text, "h1")
  \/ PlanReplyReturn("h1")
  \/ \E u \in ActiveUsers, typed \in Tickers : TradeCancel(u, toUpperCase(typed))

SpecRegistry == Init /\ [][NextRegistry]_vars

\* The price history on its own: one user has a plan for one symbol, and n
\* timer runs (n up to HISTORY_MAX) have recorded n prices above its buy zone,
\* 3.1, 3.2, ...; the monitor runs on.
InitHistory ==
  /\ sandbox \in BOOLEAN
  /\ sendFn = TRUE
  /\ alerts = << PlanOf(parsePlan(Text(<<"2">>, <<"3">>, <<"4">>, <<"1">>, "budget", <<"7">>)),
                        "AAPL", "u1", 1) >>
  /\ pendingFills = <<>>
  /\ \E n \in 0..HISTORY_MAX : priceHistory = [s \in {"AAPL"} |-> [i \in 1..n |-> 30 + i]]
  /\ userStates = [u \in {"u1"} |-> NoTask]
  /\ orders = <<>>
  /\ requests = <<>>
  /\ procs = [p \in Procs |-> Idle]
  /\ nextPlan = 1
  /\ ticks = 0
  /\ fired = [i \in 1..MaxPlans |-> 0]
  /\ runs = 0
  /\ out = NoOut

NextHistory ==
  \/ TimerFire("t1")
  \/ FetchReturn("t1")
  \/ FireSendReturn("t1")

SpecHistory == InitHistory /\ [][NextHistory]_vars

\* One user registering and cancelling plans and pending fills for one symbol
\* while the monitor runs, one timer run at a time.
NextCancel ==
  \/ PlanSteps(FillTexts, MaxPlans, {"h1"})
  \/ \E u \in ActiveUsers, sym \in ActiveSymbols : TradeCancelMissing(u, sym)
  \/ PriceSteps({"t1"})
  \/ ConfirmSteps({"h1"})
  \/ FillSteps({"t1"})
  \/ \E u \in ActiveUsers, sym \in ActiveSymbols : RemovePendingFill(u, sym)

SpecCancel == InitTrade /\ [][NextCancel]_vars

\* --------------------------------------------------------------- properties
\* the timer runs in progress: suspended somewhere in _checkPrices, _checkFills
TicksInProgress == {t \in TickSlots : procs[t] # Idle}

\* C1: each registered plan fires at most once, over any sequence of ticks and
\* prices: _fireAlert never runs a second time for a plan.
C1_FiresAtMostOnce == \A i \in DOMAIN fired : fired[i] <= 1

\* C3: at no time are two ticks (cron callback runs) in progress concurrently.
C3_TicksNeverOverlap == Cardinality(TicksInProgress) <= 1

\* the positions of an activity inside _placeFillExits
ExitPcs == {"tp", "sl", "ok_send", "manual_send"}

SellsIn(os) == {i \in 1..Len(os) : os[i].action = "SELL"}

Sells == SellsIn(orders)

SellsOfRunIn(os, r) == {i \in SellsIn(os) : os[i].run = r}

SellsOfRun(r) == SellsOfRunIn(orders, r)

HasKey(pf, fill) == IndexOf(pf, fill.symbol, fill.userId, 1) # 0

\* the exit orders of a run are the LIMIT SELL at the fill's takeProfit and the
\* STOP SELL at its stopLoss, for its symbol and quantity, and nothing else
BothExitsPlacedIn(os, r, fill) ==
  /\ Cardinality(SellsOfRunIn(os, r)) = 2
  /\ \E i, j \in SellsOfRunIn(os, r) :
       /\ os[i].priceType = "LIMIT" /\ os[i].price = fill.takeProfit
       /\ os[j].priceType = "STOP" /\ os[j].price = fill.stopLoss
       /\ \A k \in {i, j} : os[k].symbol = fill.symbol /\ os[k].qty = fill.qty

BothExitsPlaced(r, fill) == BothExitsPlacedIn(orders, r, fill)

C4_AcceptedBuyHasPendingFill ==
  out.kind = "buy_placed" =>
    /\ HasKey(pendingFills, out.fill)
    /\ pendingFills[IndexOf(pendingFills, out.fill.symbol, out.fill.userId, 1)] = out.fill

\* C5: a run of _placeFillExits in which a placement failed ends with the
\* notification "exit orders failed ... please manually place" handed to the
\* sink for the fill's user, naming SELL qty of symbol at takeProfit and at
\* stopLoss with the values of the pending fill.
C5_FailedExitsAreNotified ==
  [][\A p \in Procs :
       (/\ procs[p].pc \in ExitPcs
        /\ procs'[p].pc \notin ExitPcs
        /\ ~BothExitsPlacedIn(orders', procs[p].run, procs[p].fill))
       => /\ out'.kind = "manual"
          /\ out'.userId = procs[p].fill.userId
          /\ out'.symbol = procs[p].fill.symbol
          /\ out'.qty = procs[p].fill.qty
          /\ out'.takeProfit = procs[p].fill.takeProfit
          /\ out'.stopLoss = procs[p].fill.stopLoss]_vars

C5_Witness ==
  /\ out.kind = "manual"
  /\ out.via = "tick"
  /\ Cardinality(SellsOfRun(out.run)) = 1

\* C6 (as stated): every run of _placeFillExits that a tick started on reading
\* EXECUTED ends with exactly two SELL orders submitted (LIMIT at takeProfit,
\* STOP at stopLoss) and the success notification sent.
C6_ExecutedGivesTwoSells ==
  (out.kind \in {"exits_placed", "manual"} /\ out.via = "tick") =>
    /\ out.kind = "exits_placed"
    /\ Cardinality(SellsOfRun(out.run)) = 2

\* C6 (amended): when a tick reads EXECUTED for a pending fill, the entry is
\* removed and the tick enters _placeFillExits for it; a run submits at most
\* two SELL orders, and the success notification is sent exactly for a run
\* whose two placements the broker accepted: one LIMIT SELL at takeProfit and
\* one STOP SELL at stopLoss, for the fill's symbol and quantity.
C6_ExecutedPlacesBothOrFails ==
  /\ (out.kind = "polled" /\ out.status = "EXECUTED") =>
       /\ ~HasKey(pendingFills, out.fill)
       /\ procs[out.by].pc = "tp" /\ procs[out.by].fill = out.fill
  /\ \A r \in 1..runs : Cardinality(SellsOfRun(r)) <= 2
  /\ \A p \in Procs : procs[p].pc = "ok_send" =>
       BothExitsPlaced(procs[p].run, procs[p].fill)
  /\ out.kind = "exits_placed" =>
       \E i, j \in SellsOfRun(out.run) :
         /\ i # j
         /\ orders[i].priceType = "LIMIT" /\ orders[i].price = out.takeProfit
         /\ orders[j].priceType = "STOP" /\ orders[j].price = out.stopLoss
         /\ \A k \in {i, j} : orders[k].symbol = out.symbol /\ orders[k].qty = out.qty

C6_Witness == out.kind = "exits_placed" /\ out.via = "tick" /\ out.delivered

\* C7: when a tick reads CANCELLED or EXPIRED for a pending fill, the entry is
\* removed and the abort notification is handed to the sink for its user; no
\* tick, then or later, submits a SELL order for that BUY.
C7_CancelledNeverSells ==
  /\ (out.kind = "polled" /\ out.status \in {"CANCELLED", "EXPIRED"}) =>
       /\ ~HasKey(pendingFills, out.fill)
       /\ procs[out.by].pc = "abort_send" /\ procs[out.by].fill = out.fill
  /\ out.kind = "abort" => orders[out.buy].status \in {"CANCELLED", "EXPIRED"}
  /\ \A i \in Sells : orders[orders[i].buy].status \in {"CANCELLED", "EXPIRED"} =>
       orders[i].polled = "none"
  /\ \A p \in Procs :
       (procs[p].pc \in ExitPcs
          /\ orders[procs[p].fill.buy].status \in {"CANCELLED", "EXPIRED"})
       => procs[p].via = "force"

C7_Witness == out.kind = "abort" /\ out.status = "CANCELLED"

\* C8: a poll that reads OPEN, a partial fill or no order at all, or that fails,
\* leaves the pending-fill registry as it is, submits no order and sends
\* nothing: the tick moves on to the next entry or ends, and the entry is there
\* for the next tick's poll.
C8_LiveBuyIsLeftAlone ==
  [][\A t \in TickSlots :
       (/\ procs[t].pc = "status"
        /\ out'.kind = "polled" /\ out'.by = t
        /\ out'.status \in {"OPEN", "PARTIAL", "null", "threw"})
       => /\ pendingFills' = pendingFills
          /\ Len(orders') = Len(orders)
          /\ runs' = runs
          /\ procs'[t].pc \in {"status", "idle"}
          /\ procs'[t] = FillsStep(pendingFills, procs[t].nxt)]_vars

C8_Witness ==
  /\ out.kind = "polled"
  /\ out.status = "null"
  /\ HasKey(pendingFills, out.fill)
  /\ procs[out.by] = Idle

\* C9: every plan in the alert registry, in any reachable state, satisfies
\* stopLoss < buyLow < buyHigh < takeProfit.
C9_RegisteredPlansAreOrdered ==
  \A i \in 1..Len(alerts) :
    /\ Lt(alerts[i].stopLoss, alerts[i].buyLow)
    /\ Lt(alerts[i].buyLow, alerts[i].buyHigh)
    /\ Lt(alerts[i].buyHigh, alerts[i].takeProfit)

\* C10: a plan message that fails parsing or a check changes neither the alert
\* registry (a plan registered before for the same symbol and user stays as
\* it is) nor the pending-fill registry nor the price history.
C10_RejectedPlanHasNoEffect ==
  [][(out'.kind = "rejected" /\ out'.why # "ok") =>
       /\ alerts' = alerts
       /\ pendingFills' = pendingFills
       /\ priceHistory' = priceHistory
       /\ orders' = orders]_vars

C10_Witness ==
  /\ out.kind = "rejected"
  /\ out.why = "sl_ge_low"
  /\ \E i \in 1..Len(alerts) : alerts[i].symbol = out.symbol /\ alerts[i].userId = out.userId
  /\ pendingFills # <<>>
  /\ priceHistory[out.symbol] # <<>>

\* the BUY orders the broker holds
Buys == {i \in 1..Len(orders) : orders[i].action = "BUY"}

\* C11: no BUY is submitted unless its quantity is positive: every BUY that
\* handleConfirmation has handed to placeBuyOrder with a limit price, and every
\* BUY the broker holds, has a quantity that is a number greater than 0.
C11_OnlyPositiveBuysSubmitted ==
  /\ \A h \in Handlers :
       (procs[h].pc = "buy" /\ procs[h].hasPlan) => Ge(procs[h].qty, 1)
  /\ \A i \in Buys : Ge(orders[i].qty, 1)

\* the quantity of a plan that fires at a price: the fixed quantity, else the
\* whole shares the budget buys at that price
SharesFor(budget, fixedQty, price) ==
  IF fixedQty # None THEN fixedQty[1]
  ELSE IF budget[1] = NaN THEN NaN
  ELSE CHOOSE q \in 0..budget[1] : q * price <= budget[1] /\ (q + 1) * price > budget[1]

\* C12: one quantity from the alert to the exit orders: the quantity announced
\* when a plan fires is its fixed quantity, else floor(budget / triggerPrice);
\* the BUY handed to the broker carries the announced quantity, a PendingFill
\* carries the quantity of its BUY, and every exit SELL carries the quantity of
\* the BUY it closes.
QuantitiesAgree ==
  /\ \A t \in TickSlots :
       procs[t].pc = "fire_send" =>
         LET plan == procs[t].bs[procs[t].si].plans[procs[t].pi]
         IN procs[t].qty = SharesFor(plan.budget, plan.qty, procs[t].price)
  /\ \A u \in ActiveUsers :
       (userStates[u].activeTask = "/trade" /\ HasPlan(userStates[u].data)) =>
         LET d == userStates[u].data
         IN d.calcQty = SharesFor(d.budget, d.qty, d.triggerPrice)
  /\ \A h \in Handlers :
       procs[h].pc = "placed_reply" =>
         orders[procs[h].fill.buy].qty = procs[h].fill.qty
  /\ \A i \in 1..Len(pendingFills) :
       orders[pendingFills[i].buy].qty = pendingFills[i].qty
  /\ \A i \in Sells : orders[i].qty = orders[orders[i].buy].qty

C12_OneQuantityThroughout ==
  [][/\ QuantitiesAgree'
     /\ \A h \in Handlers :
          (procs[h].pc = "idle" /\ procs'[h].pc = "buy" /\ procs'[h].hasPlan) =>
            procs'[h].qty = userStates[procs'[h].userId].data.calcQty
     /\ \A h \in Handlers :
          (procs[h].pc = "buy" /\ procs'[h].pc = "placed_reply") =>
            procs'[h].fill.qty = procs[h].qty]_vars

\* a budget of 7.0 fired at 2.0: 3 shares announced, bought and in both exits
C12_Witness ==
  \E i, j \in Sells :
    /\ orders[i].priceType = "LIMIT" /\ orders[j].priceType = "STOP"
    /\ orders[i].buy = orders[j].buy
    /\ orders[i].qty = 3 /\ orders[j].qty = 3
    /\ orders[orders[i].buy].action = "BUY" /\ orders[orders[i].buy].qty = 3

\* a timer run is inside the loop of _checkFills, busy with one entry
FillLoopPcs == {"status", "abort_send", "tp", "sl", "ok_send", "manual_send"}

InFillLoop(t) == procs[t].pc \in FillLoopPcs /\ procs[t].via = "tick"

\* C13: whatever happens to one entry of the pending-fill registry (the status
\* query throws, an exit placement throws, a notification throws), the timer
\* run that is done with the entry goes on with the entry the registry holds
\* next, and ends only when it holds none: every other entry registered since
\* the start of the run is polled in that run.
C13_FillLoopGoesOn ==
  [][\A t \in TickSlots :
       (/\ InFillLoop(t)
        /\ procs'[t].pc \in {"idle", "status"}
        /\ procs'[t].pc = "status" => procs'[t].fill # procs[t].fill)
       => /\ procs'[t] = FillsStep(pendingFills', procs[t].nxt)
          /\ procs'[t].pc = "idle" => procs[t].nxt > Len(pendingFills')]_vars

\* a failure on one entry (query thrown, exits failed and notice undelivered,
\* abort notice undelivered), and the same run polling another entry next
C13_Witness ==
  /\ procs["t1"].pc = "status"
  /\ \/ out.kind = "polled" /\ out.status = "threw" /\ out.fill.buy # procs["t1"].fill.buy
     \/ out.kind = "manual" /\ ~out.delivered /\ out.buy # procs["t1"].fill.buy

\* C14: a symbol whose quote fetch gives no price is skipped for that timer
\* run: no plan is removed or fired, no confirmation is set up, no price
\* history changes, and the run goes on with the next symbol it has plans for
\* (with the pending fills after the last one).
C14_FailedFetchSkipsSymbol ==
  [][\A t \in TickSlots :
       (procs[t].pc = "fetch" /\ out'.kind = "no_price" /\ out'.by = t) =>
         /\ out'.symbol = procs[t].bs[procs[t].si].symbol
         /\ alerts' = alerts /\ fired' = fired /\ userStates' = userStates
         /\ priceHistory' = priceHistory
         /\ procs'[t] = IF procs[t].si < Len(procs[t].bs)
                        THEN [pc |-> "fetch", bs |-> procs[t].bs, si |-> procs[t].si + 1]
                        ELSE FillsStep(pendingFills, 1)]_vars

\* a symbol with a plan and a recorded price gets no price, and the run is
\* fetching the quote of the other symbol
C14_Witness ==
  /\ out.kind = "no_price"
  /\ IndexOf(alerts, out.symbol, "u1", 1) # 0
  /\ priceHistory[out.symbol] # <<>>
  /\ procs[out.by].pc = "fetch"
  /\ procs[out.by].bs[procs[out.by].si].symbol # out.symbol

\* C15: every placement the broker receives comes after the broker's reply to
\* the preview of the same submission, carries the preview id of that reply
\* and the client order id and order of that preview; a submission whose
\* preview came back without an id ends with an error and is never placed.
C15_PlaceOnlyAfterPreview ==
  [][/\ \A k \in 1..Len(requests') :
          requests'[k].op = "place" =>
            \E i, j \in 1..(k - 1) :
              /\ i < j
              /\ requests'[i] = PreviewRequest(requests'[k].sub, requests'[k].clientOrderId,
                                               requests'[k].detail)
              /\ requests'[j].op = "previewed" /\ requests'[j].sub = requests'[k].sub
              /\ requests'[j].previewId # None
              /\ requests'[j].previewId = requests'[k].previewId
     /\ \A j \in 1..Len(requests') :
          (requests'[j].op = "previewed" /\ requests'[j].previewId = None) =>
            /\ \A k \in 1..Len(requests') :
                 requests'[k].op = "place" => requests'[k].sub # requests'[j].sub
            /\ j > Len(requests) =>
                 /\ out' = [kind |-> "order_error", sub |-> requests'[j].sub,
                            why |-> "no_preview_id"]
                 /\ \A p \in Handlers :
                      (procs[p].pc = "preview" /\ procs[p].sub = requests'[j].sub)
                        => procs'[p] = Idle]_vars

\* one submission placed with preview id 0, another refused for want of one
C15_Witness ==
  /\ \E k \in 1..Len(requests) : requests[k].op = "place" /\ requests[k].previewId = Some(0)
  /\ \E j \in 1..Len(requests) : requests[j].op = "previewed" /\ requests[j].previewId = None
  /\ orders # <<>>

C17_FailedBuyCanBeRetried ==
  out.kind = "buy_failed" =>
    /\ IndexOf(pendingFills, out.symbol, out.userId, 1) = 0
    /\ userStates[out.userId].activeTask = "/trade"
    /\ userStates[out.userId].taskState = "awaiting_confirmation"
    /\ HasPlan(userStates[out.userId].data)

\* the entries of the registry for a symbol, in whatever case, and a user
EntriesFor(as, sym, usr) ==
  {i \in 1..Len(as) : toUpperCase(as[i].symbol) = toUpperCase(sym) /\ as[i].userId = usr}

\* C18: the registry holds at most one plan for a symbol (compared without
\* regard to case) and a user; registering a plan leaves that plan as the one
\* entry of its symbol and user, in place of any earlier one, and every other
\* entry as it was; and listAlerts(userId) holds exactly the registry's plans
\* of that user.
C18_OnePlanPerSymbolAndUser ==
  [][/\ \A i, j \in 1..Len(alerts') :
          (/\ toUpperCase(alerts'[i].symbol) = toUpperCase(alerts'[j].symbol)
           /\ alerts'[i].userId = alerts'[j].userId) => i = j
     /\ \A u \in ActiveUsers :
          LET mine == listAlerts(alerts', u)
          IN /\ \A k \in 1..Len(mine) :
                  mine[k].userId = u /\ \E i \in 1..Len(alerts') : alerts'[i] = mine[k]
             /\ \A i \in 1..Len(alerts') :
                  alerts'[i].userId = u => \E k \in 1..Len(mine) : mine[k] = alerts'[i]
             /\ Len(mine) = Cardinality({i \in 1..Len(alerts') : alerts'[i].userId = u})
     /\ nextPlan' = nextPlan + 1 =>
          \E i \in 1..Len(alerts') :
            /\ alerts'[i].id = nextPlan'
            /\ EntriesFor(alerts', alerts'[i].symbol, alerts'[i].userId) = {i}
            /\ Len(alerts') = Len(alerts) +
                 (IF EntriesFor(alerts, alerts'[i].symbol, alerts'[i].userId) = {} THEN 1 ELSE 0)
            /\ \A j \in 1..Len(alerts) :
                 j \notin EntriesFor(alerts, alerts'[i].symbol, alerts'[i].userId)
                   => \E k \in 1..Len(alerts') : alerts'[k] = alerts[j]]_vars

\* a user's second plan for a symbol has replaced the first: the registry
\* holds plan 2 alone, listed for that user and not for the other
C18_Witness ==
  /\ nextPlan = 2
  /\ Len(alerts) = 1
  /\ alerts[1].id = 2
  /\ listAlerts(alerts, alerts[1].userId) = alerts
  /\ \E u \in ActiveUsers : listAlerts(alerts, u) = <<>>

\* a plan or a pending fill refers to the symbol
Referenced(as, pf, sym) ==
  \/ \E i \in 1..Len(as) : as[i].symbol = sym
  \/ \E i \in 1..Len(pf) : pf[i].symbol = sym

\* C19: when a plan leaves the registry (cancelled or fired), the history of
\* its symbol is deleted if no plan and no pending fill refers to the symbol
\* any more, and is kept if one does.
C19_HistoryPrunedIffUnreferenced ==
  [][\A i \in 1..Len(alerts) :
       (\A j \in 1..Len(alerts') : alerts'[j].id # alerts[i].id) =>
         LET sym == alerts[i].symbol
         IN IF Referenced(alerts', pendingFills', sym)
            THEN priceHistory[sym] # <<>> => priceHistory'[sym] # <<>>
            ELSE priceHistory'[sym] = <<>>]_vars

\* C20: a symbol's history never holds more than HISTORY_MAX observations, and
\* a timer run that gets a price and fires nothing leaves the history as it
\* was with that price added last, less the oldest observation when it held
\* HISTORY_MAX already: the rest keep their order.
C20_HistoryIsARollingBuffer ==
  [][/\ \A s \in ActiveSymbols : Len(priceHistory'[s]) <= HISTORY_MAX
     /\ \A t \in TickSlots :
          (/\ procs[t].pc = "fetch" /\ procs'[t] # procs[t]
           /\ out'.kind # "no_price" /\ alerts' = alerts) =>
            LET sym == procs[t].bs[procs[t].si].symbol
                old == priceHistory[sym]
                new == priceHistory'[sym]
            IN /\ new # <<>>
               /\ new[Len(new)] \in QuotePrices
               /\ IF Len(old) < HISTORY_MAX
                  THEN /\ Len(new) = Len(old) + 1
                       /\ \A i \in 1..Len(old) : new[i] = old[i]
                  ELSE /\ Len(new) = HISTORY_MAX
                       /\ \A i \in 1..(HISTORY_MAX - 1) : new[i] = old[i + 1]]_vars

\* a full history of 3.1 .. 6.0 has taken a price of 1.0: 3.1 is gone
C20_Witness ==
  /\ Len(priceHistory["AAPL"]) = HISTORY_MAX
  /\ priceHistory["AAPL"][1] = 32
  /\ priceHistory["AAPL"][HISTORY_MAX - 1] = 60
  /\ priceHistory["AAPL"][HISTORY_MAX] = 10

\* the plans a timer run in progress has taken into its bySymbol snapshot
Evaluating(p) ==
  \E t \in TickSlots :
    /\ "bs" \in DOMAIN procs[t]
    /\ \E i \in 1..Len(procs[t].bs) :
         \E j \in 1..Len(procs[t].bs[i].plans) : procs[t].bs[i].plans[j].id = p

\* the pending fills an activity is handling: polled by _checkFills, or in
\* _placeFillExits
Handling(b) ==
  \E p \in Procs : "via" \in DOMAIN procs[p] /\ procs[p].fill.buy = b

AbsentRemoval ==
  \/ out'.kind = "alert_not_found"
  \/ out'.kind = "fill_removed" /\ ~out'.existed

\* C21: a plan that "/trade cancel" removed is, once no timer run in progress
\* holds it, never evaluated and never fired by a timer run again; a pending
\* fill that removePendingFill removed is, once no activity in progress holds
\* it, never polled and never given exit orders again; the removal of an
\* absent entry reports false and changes neither registry, nor the price
\* history, nor any activity in progress.
C21_RemovedEntriesStayOut ==
  /\ \A p \in 1..MaxPlans, f \in 0..MaxTicks :
       [](out.kind = "alert_removed" /\ out.plan = p
            => []((~Evaluating(p) /\ fired[p] = f)
                    => [](~Evaluating(p) /\ fired[p] = f)))
  /\ \A b \in 1..MaxOrders :
       [](out.kind = "fill_removed" /\ out.existed /\ out.buy = b
            => [](~Handling(b) => [](~Handling(b))))
  /\ [][AbsentRemoval =>
          UNCHANGED <<alerts, pendingFills, priceHistory, procs, userStates, orders>>]_vars

\* a pending fill was found and removed while its BUY was live, and the
\* monitor has a timer run to come
C21_Witness ==
  /\ out.kind = "fill_removed"
  /\ out.existed
  /\ out.buy = 1
  /\ orders[1].status = "OPEN"
  /\ pendingFills = <<>>
  /\ sendFn /\ procs["t1"] = Idle /\ ticks < MaxTicks

\* ------------------------------------------------------ _buildTrendSummary
MaxTrendLen == 5

\* prices around 100.0, in tenths: from 100.0, 100.5 is +0.5%, 100.4 is +0.4%,
\* 99.5 is -0.5%, 97.0 is -3%
TrendPrices == {970, 995, 1000, 1004, 1005}

\* variant of trendDirection with a plausible bug: strict thresholds
trendDirection_Strict(oldest, newest) ==
  IF (newest - oldest) * 200 < 0 - oldest THEN "down"
  ELSE IF (newest - oldest) * 200 > oldest THEN "up"
  ELSE "ranging"

\* direction: totalPct = (newest - oldest) / oldest * 100 against -0.5 and 0.5,
\* for a positive oldest price, in exact arithmetic:
\* totalPct >= 0.5 iff (newest - oldest) * 200 >= oldest
trendDirection(oldest, newest) ==
  IF (newest - oldest) * 200 <= 0 - oldest THEN "down"
  ELSE IF (newest - oldest) * 200 >= oldest THEN "up"
  ELSE "ranging"

\* totalPct.toFixed(2), in hundredths of a percent: the nearest one, the larger
\* of two equally near ones
totalPctFixed2(oldest, newest) ==
  ((newest - oldest) * 20000 + oldest) \div (2 * oldest)

RECURSIVE MinOf(_)
MinOf(prices) ==
  IF Len(prices) = 1 THEN prices[1]
  ELSE LET m == MinOf(Tail(prices)) IN IF prices[1] < m THEN prices[1] ELSE m

RECURSIVE MaxOf(_)
MaxOf(prices) ==
  IF Len(prices) = 1 THEN prices[1]
  ELSE LET m == MaxOf(Tail(prices)) IN IF prices[1] > m THEN prices[1] ELSE m

\* _buildTrendSummary(symbol, currentPrice): None for null, else the figures
\* the summary text is built from
_buildTrendSummary(hist, sym, currentPrice) ==
  LET buf == hist[sym]
  IN IF Len(buf) < 2 THEN None
     ELSE Some([polls |-> Len(buf),
                direction |-> trendDirection(buf[1], currentPrice),
                min |-> MinOf(buf), max |-> MaxOf(buf),
                change |-> totalPctFixed2(buf[1], currentPrice)])

\* The monitor gets a price for a watched symbol that is in a plan's zone:
\* _checkPrices records it and _fireAlert builds the trend summary from the
\* buffer and that price.
RecordAndSummarise(sym) ==
  /\ Len(priceHistory[sym]) < MaxTrendLen
  /\ \E price \in TrendPrices :
       LET hist == _recordPrice(priceHistory, sym, price)
       IN /\ priceHistory' = hist
          /\ out' = [kind |-> "trend", symbol |-> sym, price |-> price,
                     summary |-> _buildTrendSummary(hist, sym, price)]
  /\ UNCHANGED <<sandbox, requests, sendFn, alerts, pendingFills, userStates, orders, procs,
                 nextPlan, ticks, runs, fired>>

\* The trend summary on its own: the buffer of a watched symbol holds up to
\* two prices, or 100.0, 101.0, 99.0, 98.0.
TrendHistories ==
  UNION {[1..n -> TrendPrices] : n \in 0..2} \cup {<<1000, 1010, 990, 980>>}

InitTrend ==
  /\ sandbox \in BOOLEAN
  /\ sendFn = TRUE
  /\ alerts = << PlanOf(parsePlan(Text(<<"2">>, <<"3">>, <<"4">>, <<"1">>, "budget", <<"7">>)),
                        "AAPL", "u1", 1) >>
  /\ pendingFills = <<>>
  /\ \E h \in TrendHistories : priceHistory = [s \in {"AAPL"} |-> h]
  /\ userStates = [u \in {"u1"} |-> NoTask]
  /\ orders = <<>>
  /\ requests = <<>>
  /\ procs = [p \in Procs |-> Idle]
  /\ nextPlan = 1
  /\ ticks = 0
  /\ fired = [i \in 1..MaxPlans |-> 0]
  /\ runs = 0
  /\ out = NoOut

NextTrend == RecordAndSummarise("AAPL")

SpecTrend == InitTrend /\ [][NextTrend]_vars

\* C22: fewer than two observations give no trend summary; otherwise the
\* direction is "up" when the change from the oldest to the newest observation
\* is at least +0.5% (5 per 1000 of the oldest), "down" when it is at most
\* -0.5%, and "ranging" strictly between; 100, 101, 99, 98, 97 gives -3.00%
\* and "down".
C22_TrendDirectionByTotalChange ==
  out.kind = "trend" =>
    LET buf == priceHistory[out.symbol]
        oldest == buf[1]
        newest == buf[Len(buf)]
        permille == (newest - oldest) * 1000
    IN /\ (out.summary = None) <=> (Len(buf) < 2)
       /\ out.summary # None =>
            /\ (out.summary[1].direction = "up") <=> (permille >= 5 * oldest)
            /\ (out.summary[1].direction = "down") <=> (permille <= (0 - 5) * oldest)
            /\ (out.summary[1].direction = "ranging") <=>
                 (permille > (0 - 5) * oldest /\ permille < 5 * oldest)
       /\ buf = <<1000, 1010, 990, 980, 970>> =>
            out.summary[1].direction = "down" /\ out.summary[1].change = 0 - 300

\* 100.0 then 100.5: exactly +0.5% is "up"
C22_Witness ==
  /\ out.kind = "trend"
  /\ priceHistory["AAPL"] = <<1000, 1005>>
  /\ out.summary # None
  /\ out.summary[1].direction = "up"
  /\ out.summary[1].change = 50

\* ------------------------------------------------------- one task per user
\* One user with plans for two symbols, from the plans to the pending fills,
\* with the re-authentication of an expired broker session, while the monitor
\* runs.
NextTasks ==
  \/ PlanSteps(FillTexts, MaxPlans, {"h1"})
  \/ PriceSteps({"t1"})
  \/ ConfirmSteps({"h1"})
  \/ FillSteps({"t1"})
  \/ ForceSteps({"h1"})
  \/ \E u \in ActiveUsers : handlePin(u)

SpecTasks == InitQuotes /\ [][NextTasks]_vars

NextFire ==
  \/ PlanSteps(QtyTexts, MaxPlans, {"h1"})
  \/ PriceSteps({"t1"})
  \/ \E u \in ActiveUsers : Dismiss(u)

SpecFire == InitQuotes /\ [][NextFire]_vars

\* a timer run has just fired a plan: it is suspended in the send of that
\* plan's notification
Fires(t) == procs'[t].pc = "fire_send" /\ procs'[t] # procs[t]

FiredPlan(me) == me.bs[me.si].plans[me.pi]

\* C24: when a plan fires, the plan is gone from the registry and its
\* notification is on its way; a user with no active task gets the task
\* /trade in awaiting_confirmation whose data are the plan's symbol, buy zone,
\* take profit, stop loss, budget or fixed quantity, the trigger price and the
\* quantity computed from it; a user with an active task keeps that task as
\* it is.  The notification that follows is the one of that plan.
C24_FireSetsUpConfirmation ==
  [][\A t \in TickSlots :
       /\ Fires(t) =>
            LET me == procs'[t]
                plan == FiredPlan(me)
                u == plan.userId
                shares == IF plan.qty # None THEN plan.qty[1]
                          ELSE IF plan.budget[1] = NaN THEN NaN
                          ELSE plan.budget[1] \div me.price
            IN /\ \A i \in 1..Len(alerts') : alerts'[i].id # plan.id
               /\ InZone(plan, me.price)
               /\ me.qty = shares
               /\ IF hasActiveTask(userStates, u)
                  THEN userStates'[u] = userStates[u]
                  ELSE /\ userStates'[u].activeTask = "/trade"
                       /\ userStates'[u].taskState = "awaiting_confirmation"
                       /\ userStates'[u].data =
                            [symbol |-> plan.symbol, buyLow |-> plan.buyLow,
                             buyHigh |-> plan.buyHigh, takeProfit |-> plan.takeProfit,
                             stopLoss |-> plan.stopLoss, budget |-> plan.budget,
                             qty |-> plan.qty, triggerPrice |-> me.price,
                             calcQty |-> shares, plan |-> plan.id]
       /\ (procs[t].pc = "fire_send" /\ procs'[t] # procs[t]) =>
            /\ out'.kind = "alert"
            /\ out'.plan = FiredPlan(procs[t]).id
            /\ out'.userId = FiredPlan(procs[t]).userId
            /\ out'.price = procs[t].price /\ out'.qty = procs[t].qty]_vars

\* the user's second plan has fired while the first awaited confirmation: the
\* task holds the first plan, both plans are gone, and the second notification
\* has been sent
C24_Witness ==
  /\ alerts = <<>>
  /\ fired[1] = 1 /\ fired[2] = 1
  /\ userStates["u1"].activeTask = "/trade"
  /\ userStates["u1"].taskState = "awaiting_confirmation"
  /\ userStates["u1"].data.plan = 1
  /\ userStates["u1"].data.calcQty = 3
  /\ out.kind = "alert" /\ out.plan = 2 /\ out.delivered

\* the symbols a timer run that has just started is going to fetch, one fetch
\* per bySymbol entry
FetchList(me) ==
  IF "bs" \in DOMAIN me THEN {me.bs[i].symbol : i \in 1..Len(me.bs)} ELSE {}

FetchedOnce(me) ==
  "bs" \in DOMAIN me =>
    \A i, j \in 1..Len(me.bs) : me.bs[i].symbol = me.bs[j].symbol => i = j

Watched(as, pf) ==
  {as[i].symbol : i \in 1..Len(as)} \cup {pf[i].symbol : i \in 1..Len(pf)}

\* C25: a timer run that starts fetches, once each, exactly the symbols that a
\* plan or a pending fill refers to.
C25_FetchesPlansAndPendingFills ==
  [][ticks' = ticks + 1 =>
       \E t \in TickSlots :
         /\ procs[t] = Idle
         /\ FetchedOnce(procs'[t])
         /\ FetchList(procs'[t]) = Watched(alerts, pendingFills)]_vars

\* ------------------------------------------------------- the cron callback
\* The monitor with awaited calls that settle: a quote fetch and a send of an
\* alert return or throw in the end.
SpecMonitorFair ==
  /\ InitTrade
  /\ [][NextCancel]_vars
  /\ WF_vars(FetchReturn("t1"))
  /\ WF_vars(FireSendReturn("t1"))

\* where a timer run is: in _checkPrices, in _checkFills
InPrices(me) == me.pc \in {"fetch", "fire_send"}

InFills(me) == "via" \in DOMAIN me /\ me.via = "tick"

\* C26: a timer run begins with the price check (which returns at once when
\* there is no plan); the step that ends the price check, whatever it was - a
\* quote, a failed fetch, a sent or an unsent alert - is the step that begins
\* the fill check at the first pending fill (or runs it over an empty
\* registry); a run in its fill check never goes back to the price check; and
\* a price check that has begun ends.
C26_PricesThenFillsEveryRun ==
  /\ [][\A t \in TickSlots :
          /\ (procs[t] = Idle /\ procs'[t] # Idle) =>
               /\ ticks' = ticks + 1
               /\ IF alerts = <<>> THEN procs'[t] = FillsStep(pendingFills, 1)
                  ELSE InPrices(procs'[t])
          /\ (InPrices(procs[t]) /\ ~InPrices(procs'[t])) =>
               procs'[t] = FillsStep(pendingFills', 1)
          /\ InFills(procs[t]) => ~InPrices(procs'[t])]_vars
  /\ \A t \in TickSlots : InPrices(procs[t]) ~> ~InPrices(procs[t])

\* a run got no price for its symbol, and with that its price check ended and
\* its fill check is polling the pending fill
C26_Witness ==
  /\ out.kind = "no_price"
  /\ alerts # <<>>
  /\ procs["t1"].pc = "status"
  /\ InFills(procs["t1"])

\* a timer run has just come back from a send that threw
SendFailed(t, pc, kind) ==
  /\ procs[t].pc = pc
  /\ procs'[t] # procs[t]
  /\ out'.kind = kind
  /\ ~out'.delivered

\* C27: a send that throws in a timer run ends nothing but itself.  After an
\* alert that could not be sent the fired plan stays removed and the run goes
\* on with the next plan of the symbol that is in its zone, else the next
\* symbol, else the fill check; after a notice of a cancelled or expired BUY,
\* or the manual-exits notice, that could not be sent, the entry stays removed,
\* the orders stay, and the run polls the next pending fill; after an
\* exits-placed notice that could not be sent the run sends the manual notice.
C27_SendFailureStaysInTheRun ==
  [][\A t \in TickSlots :
       /\ SendFailed(t, "fire_send", "alert") =>
            LET me == procs[t]
                plan == FiredPlan(me)
                j == NextInZone(me.bs[me.si].plans, me.pi + 1, me.price)
            IN /\ \A i \in 1..Len(alerts') : alerts'[i].id # plan.id
               /\ fired'[plan.id] = fired[plan.id]
               /\ pendingFills' = pendingFills /\ orders' = orders
               /\ IF j # 0
                  THEN /\ procs'[t].pc = "fire_send" /\ procs'[t].pi = j
                       /\ fired'[me.bs[me.si].plans[j].id] = fired[me.bs[me.si].plans[j].id] + 1
                  ELSE procs'[t] = IF me.si < Len(me.bs)
                                   THEN [pc |-> "fetch", bs |-> me.bs, si |-> me.si + 1]
                                   ELSE FillsStep(pendingFills, 1)
       /\ (SendFailed(t, "abort_send", "abort") \/ SendFailed(t, "manual_send", "manual")) =>
            /\ alerts' = alerts /\ pendingFills' = pendingFills /\ orders' = orders
            /\ \A i \in 1..Len(pendingFills') : pendingFills'[i].buy # procs[t].fill.buy
            /\ procs'[t] = FillsStep(pendingFills, procs[t].nxt)
       /\ SendFailed(t, "ok_send", "exits_placed") =>
            /\ alerts' = alerts /\ pendingFills' = pendingFills /\ orders' = orders
            /\ procs'[t] = [procs[t] EXCEPT !.pc = "manual_send"]]_vars

\* the alert of one user's plan could not be sent, and the run has fired the
\* other user's plan for the same symbol
C27_Witness ==
  /\ out.kind = "alert" /\ ~out.delivered
  /\ procs["t1"].pc = "fire_send"
  /\ FiredPlan(procs["t1"]).id # out.plan
  /\ fired[1] = 1 /\ fired[2] = 1
  /\ alerts = <<>>

\* ------------------------------------------------------------ verification
\* nothing was verified: the order list could not be fetched or did not hold
\* the order
Unverified(v) == \E id \in DOMAIN v : ~v[id]

\* C28: whatever _verifyOrders finds, an order the broker took counts as
\* placed.  A BUY the broker took is followed by the confirmation reply and,
\* once that reply is delivered, by its pending fill, verified or not; a
\* stop-loss SELL the broker took, after the take-profit SELL, is followed by
\* the exits-placed notice, verified or not.
C28_VerificationIsBestEffort ==
  [][\A p \in Procs :
       /\ (procs[p].pc = "buy" /\ procs'[p] # procs[p]
           /\ Len(orders') = Len(orders) + 1) =>
            /\ procs'[p].pc = "placed_reply"
            /\ procs'[p].fill.buy = Len(orders')
            /\ userStates' = userStates
       /\ (procs[p].pc = "placed_reply" /\ procs'[p] # procs[p]) =>
            /\ out'.kind = "buy_placed"
            /\ out'.verification = procs[p].verification
            /\ out'.delivered =>
                 \E i \in 1..Len(pendingFills') : pendingFills'[i] = procs[p].fill
       /\ (procs[p].pc = "sl" /\ procs'[p] # procs[p]
           /\ Len(orders') = Len(orders) + 1) =>
            /\ procs'[p].pc = "ok_send"
            /\ DOMAIN procs'[p].verification = ExitIds(orders', procs[p].run)
       /\ (procs[p].pc = "ok_send" /\ procs'[p] # procs[p]) =>
            /\ out'.kind = "exits_placed"
            /\ out'.verification = procs[p].verification]_vars

\* the BUY carried an order id that the verification did not find; its
\* confirmation was delivered and its pending fill is registered
C28_Witness ==
  /\ out.kind = "buy_placed"
  /\ out.delivered
  /\ out.fill.buyOrderId # None
  /\ Unverified(out.verification)
  /\ \E i \in 1..Len(pendingFills) : pendingFills[i] = out.fill

\* ------------------------------------------------- plans for two symbols
\* Plans whose buy zone, 1.0 to 3.0, holds both quotes the monitor can get, with
\* a budget or a fixed quantity.
WideTexts ==
  { Text(<<"1">>, <<"3">>, <<"4">>, <<"0", ".", "5">>, "budget", <<"7">>),
    Text(<<"1">>, <<"3">>, <<"4">>, <<"0", ".", "5">>, "qty", <<"2">>) }

\* Two users with plans for two symbols, and the price check of the monitor.
NextSymbols ==
  \/ PlanSteps(WideTexts, MaxPlans, {"h1"})
  \/ PriceSteps({"t1"})
  \/ \E u \in ActiveUsers : Dismiss(u)

SpecSymbols == Init /\ [][NextSymbols]_vars

Last(s) == s[Len(s)]

\* C29: in a timer run every symbol's plans are evaluated against that
\* symbol's own quote, whatever the run did for the symbols before it.  When a
\* quote arrives, the first plan of the symbol's group whose zone holds it
\* fires: it is a plan for that symbol, it leaves the registry, and its
\* quantity is computed from that quote; no plan fires only if no zone of the
\* group holds the quote.  The notification then sent carries that plan, that
\* quote and that quantity, and the next plan of the group whose zone holds
\* the quote fires in turn.
C29_SymbolsFireIndependently ==
  [][\A t \in TickSlots :
       /\ (procs[t].pc = "fetch" /\ procs'[t] # procs[t] /\ out'.kind # "no_price") =>
            LET g == procs[t].bs[procs[t].si]
            IN IF Fires(t)
               THEN LET me == procs'[t]
                        plan == FiredPlan(me)
                    IN /\ me.si = procs[t].si
                       /\ plan.symbol = g.symbol
                       /\ InZone(plan, me.price)
                       /\ \A k \in 1..(me.pi - 1) : ~InZone(g.plans[k], me.price)
                       /\ me.qty = OrderQty(plan.budget, plan.qty, me.price)
                       /\ fired'[plan.id] = fired[plan.id] + 1
                       /\ \A i \in 1..Len(alerts') : alerts'[i].id # plan.id
               ELSE /\ priceHistory'[g.symbol] # <<>>
                    /\ \A k \in 1..Len(g.plans) :
                         ~InZone(g.plans[k], Last(priceHistory'[g.symbol]))
                    /\ alerts' = alerts /\ fired' = fired
       /\ (procs[t].pc = "fire_send" /\ procs'[t] # procs[t]) =>
            LET me == procs[t]
                plan == FiredPlan(me)
                j == NextInZone(me.bs[me.si].plans, me.pi + 1, me.price)
            IN /\ out'.kind = "alert"
               /\ out'.plan = plan.id /\ out'.userId = plan.userId
               /\ out'.symbol = plan.symbol
               /\ out'.price = me.price /\ out'.qty = me.qty
               /\ IF j # 0
                  THEN /\ Fires(t) /\ procs'[t].si = me.si /\ procs'[t].pi = j
                       /\ procs'[t].price = me.price
                       /\ FiredPlan(procs'[t]).symbol = plan.symbol
                       /\ procs'[t].qty =
                            OrderQty(FiredPlan(procs'[t]).budget, FiredPlan(procs'[t]).qty,
                                     me.price)
                  ELSE ~Fires(t)]_vars

\* one timer run has fired the plans of two users for two symbols, the first
\* at 2.0 for 3 shares, the second at 1.0 for 7 shares
C29_Witness ==
  /\ ticks = 1
  /\ fired[1] = 1 /\ fired[2] = 1
  /\ alerts = <<>>
  /\ userStates["u1"].activeTask = "/trade"
  /\ userStates["u2"].activeTask = "/trade"
  /\ userStates["u1"].taskState = "awaiting_confirmation"
  /\ userStates["u2"].taskState = "awaiting_confirmation"
  /\ userStates["u1"].data.symbol # userStates["u2"].data.symbol
  /\ userStates["u1"].data.triggerPrice = 20 /\ userStates["u1"].data.calcQty = 3
  /\ userStates["u2"].data.triggerPrice = 10 /\ userStates["u2"].data.calcQty = 7
  /\ out.kind = "alert" /\ out.userId = "u2" /\ out.price = 10 /\ out.qty = 7

\* the registry without the plan that has this id
WithoutPlan(as, id) == SelectSeq(as, LAMBDA a : a.id # id)

\* C30: a firing takes the fired plan, and nothing else, out of the registry:
\* every other plan is still there, in its place and with its fields.
C30_FiringRemovesOnlyThatPlan ==
  [][\A t \in TickSlots :
       Fires(t) => alerts' = WithoutPlan(alerts, FiredPlan(procs'[t]).id)]_vars

\* ------------------------------------------------- confirm, and confirm again
\* One user, one plan, and two message handlers at a time: gateway.on('message')
\* starts router.handleMessage for every message and waits for none, so a
\* second message of the user is handled while the first is suspended.
NextDouble ==
  \/ PlanSteps(FillTexts, MaxTradePlans, {"h1"})
  \/ PriceSteps({"t1"})
  \/ ConfirmSteps(Handlers)

SpecDouble == InitTrade /\ [][NextDouble]_vars

RECURSIVE FiredUpTo(_)
\* the number of firings of the plans 1..n
FiredUpTo(n) == IF n = 0 THEN 0 ELSE fired[n] + FiredUpTo(n - 1)

\* C31: at most one BUY is submitted per fired alert: the broker never holds
\* more BUY orders than alerts have fired, also when the user sends confirm
\* again while the first confirmation is suspended on the broker call.
C31_OneBuyPerFiredAlert == Cardinality(Buys) <= FiredUpTo(MaxPlans)

\* ------------------------------------------------ pending fills that vanish
\* the entry pendingFills[i] has left the registry in this step: no entry of
\* the next state stands for its BUY
Gone(i) == \A j \in DOMAIN pendingFills' : pendingFills'[j].buy # pendingFills[i].buy

\* statuses after which a BUY no longer changes
TerminalStatuses == {"EXECUTED", "CANCELLED", "EXPIRED"}

\* C32: a pending fill is never lost while its BUY is live: an entry leaves
\* the registry only in the step that has polled a terminal status for it, in
\* a removePendingFill of its key or in a forceTriggerFill that takes it; the
\* registration of another BUY for the same symbol and user does not replace
\* it.
C32_PendingFillNeverReplaced ==
  [][\A i \in DOMAIN pendingFills :
       Gone(i) =>
         \/ /\ out'.kind = "polled"
            /\ out'.fill = pendingFills[i]
            /\ out'.status \in TerminalStatuses
         \/ /\ out'.kind = "fill_removed"
            /\ out'.buy = pendingFills[i].buy
         \/ \E h \in Handlers :
              /\ procs[h] = Idle
              /\ procs'[h].pc = "tp" /\ procs'[h].via = "force"
              /\ procs'[h].fill = pendingFills[i]]_vars

\* ------------------------------------------------- exits once per pending fill
\* One user, one plan, one timer run and one message handler at a time, with
\* the sandbox command "/trade fill".
NextForce ==
  \/ PlanSteps(FillTexts, MaxTradePlans, {"h1"})
  \/ PriceSteps({"t1"})
  \/ ConfirmSteps({"h1"})
  \/ FillSteps({"t1"})
  \/ ForceSteps({"h1"})

SpecForce == InitTrade /\ [][NextForce]_vars

\* the activity p enters _placeFillExits in this step
EntersExits(p) == procs[p].pc \notin ExitPcs /\ procs'[p].pc = "tp"

\* _placeFillExits has run, or is running, for the BUY b
ExitsRanFor(b) ==
  \/ \E i \in Sells : orders[i].buy = b
  \/ \E q \in Procs : procs[q].pc \in ExitPcs /\ procs[q].fill.buy = b

\* C33: exit orders are placed at most once per pending fill: _placeFillExits
\* is not entered for a BUY for which it is running or has placed an order,
\* whatever ticks, forceTriggerFill and registrations are interleaved.
C33_ExitsRunOncePerBuy ==
  [][\A p \in Procs : EntersExits(p) => ~ExitsRanFor(procs'[p].fill.buy)]_vars

\* C33, second part: the entry that _checkFills deletes on a terminal status
\* is the entry whose status it polled.
C33_DeletesThePolledEntry ==
  [][(out'.kind = "polled" /\ out'.status \in TerminalStatuses) =>
       \A i \in DOMAIN pendingFills : Gone(i) => pendingFills[i] = out'.fill]_vars

\* C34: the notification "exit orders failed ... please manually place" is
\* sent only when the placement of an exit order failed: the run of
\* _placeFillExits that sends it has not placed both SELL orders.
C34_ManualNoticeOnlyOnFailedPlacement ==
  out.kind = "manual" => Cardinality(SellsOfRun(out.run)) < 2

\* C35: exit protection is all-or-nothing per fill: when a run of
\* _placeFillExits has ended, the broker holds none or both of its SELL orders,
\* never the take-profit alone, and the manual instructions name no order that
\* the run has placed.
C35_ExitsAllOrNothing ==
  /\ (out.kind = "manual" \/ (out.kind = "exits_placed" /\ out.delivered)) =>
       Cardinality(SellsOfRun(out.run)) \in {0, 2}
  /\ out.kind = "manual" =>
       \A i \in SellsOfRun(out.run) : orders[i].price \notin {out.takeProfit, out.stopLoss}

\* ------------------------------------------------ the fill check, for good
\* The fill check on its own: u1's BUY of 3 AAPL at 2.0 (plan "buy 2 3 tp 4
\* sl 1 budget 7") has been accepted with order id 1 and its pending fill is
\* registered; the account's order list holds that BUY and the orders placed
\* on the account since, ORDER_COUNT - 1 or ORDER_COUNT of them at most.
PollLengths == {1, 2, ORDER_COUNT, ORDER_COUNT + 1}

PolledBuy == Order("BUY", "AAPL", 3, "LIMIT", 20, 0, 0, "none")

LaterOrder == Order("BUY", "UBER", 1, "LIMIT", 10, 0, 0, "none")

InitPoll ==
  /\ sandbox \in BOOLEAN
  /\ sendFn = TRUE
  /\ alerts = <<>>
  /\ pendingFills =
       << FillOf([symbol |-> "AAPL", userId |-> "u1", qty |-> 3, takeProfit |-> 40,
                  stopLoss |-> 10], Some(1), 1) >>
  /\ priceHistory = [s \in {"AAPL"} |-> <<>>]
  /\ userStates = [u \in {"u1"} |-> NoTask]
  /\ \E n \in PollLengths : orders = [i \in 1..n |-> IF i = 1 THEN PolledBuy ELSE LaterOrder]
  /\ requests = <<>>
  /\ procs = [p \in Procs |-> Idle]
  /\ nextPlan = 1
  /\ ticks = 0
  /\ fired = [i \in 1..MaxPlans |-> IF i = 1 THEN 1 ELSE 0]
  /\ runs = 0
  /\ out = NoOut

NextPoll ==
  \/ TimerFire("t1")
  \/ FillSteps({"t1"})

\* The fill check with a timer that keeps firing and awaited calls that
\* settle: node-cron starts a run every minute, and every status query,
\* placement and send returns or throws in the end.
SpecPollFair ==
  /\ InitPoll
  /\ [][NextPoll]_vars
  /\ WF_vars(TimerFire("t1"))
  /\ WF_vars(FillSteps({"t1"}))

\* the registry holds the pending fill of the BUY b
Registered(b) == \E i \in DOMAIN pendingFills : pendingFills[i].buy = b

\* the status query for the pending fill of the BUY b has just thrown
PollThrew(b) == out.kind = "polled" /\ out.fill.buy = b /\ out.status = "threw"

C37_PendingFillHasOrderId ==
  \A i \in DOMAIN pendingFills : pendingFills[i].buyOrderId # None

\* C38: a plan cancelled while a timer run is suspended on the quote fetch
\* does not fire in that run: a plan that fires is in the registry at the
\* moment it fires, and a price is recorded only in the history of a symbol
\* that a registered plan refers to.
C38_OnlyRegisteredPlansFire ==
  [][/\ \A t \in TickSlots :
          Fires(t) => \E i \in DOMAIN alerts : alerts[i].id = FiredPlan(procs'[t]).id
     /\ \A sym \in DOMAIN priceHistory :
          (priceHistory'[sym] # priceHistory[sym] /\ priceHistory'[sym] # <<>>) =>
            \E i \in DOMAIN alerts : alerts[i].symbol = sym]_vars

\* ------------------------------------------------ replies to a fired alert
\* A message is a sequence of characters.
LowerChar(c) ==
  CASE c = "A" -> "a" [] c = "C" -> "c" [] c = "E" -> "e" [] c = "F" -> "f"
    [] c = "I" -> "i" [] c = "L" -> "l" [] c = "M" -> "m" [] c = "N" -> "n"
    [] c = "O" -> "o" [] c = "R" -> "r" [] c = "Y" -> "y"
    [] OTHER -> c

\* String.prototype.toLowerCase, character by character
toLowerCaseChars(s) == [i \in 1..Len(s) |-> LowerChar(s[i])]

RECURSIVE trim(_)
\* String.prototype.trim: the blanks at both ends are dropped
trim(s) ==
  IF s # <<>> /\ s[1] = " " THEN trim(Tail(s))
  ELSE IF s # <<>> /\ s[Len(s)] = " " THEN trim(SubSeq(s, 1, Len(s) - 1))
  ELSE s

RECURSIVE FirstWord(_)
\* text.split(/\s+/)[0] of a trimmed text
FirstWord(s) == IF s = <<>> \/ s[1] = " " THEN <<>> ELSE <<s[1]>> \o FirstWord(Tail(s))

ConfirmWord == <<"c", "o", "n", "f", "i", "r", "m">>
CancelWord == <<"c", "a", "n", "c", "e", "l">>
CancelCommand == <<"/">> \o CancelWord

\* the replies that are "confirm" and "cancel" whatever their case and the
\* blanks around them
ExactConfirm ==
  { ConfirmWord,
    <<"C", "O", "N", "F", "I", "R", "M">>,
    <<" ", "C", "o", "n", "f", "i", "r", "m", " ">> }

ExactCancel ==
  { CancelWord,
    <<"C", "a", "n", "c", "e", "l", " ">> }

\* the commands the router handles itself, before any task
RouterCommands ==
  { CancelCommand,
    <<"/", "C", "A", "N", "C", "E", "L">>,
    CancelCommand \o <<" ", "i", "t">> }

\* any other reply
OtherReplies ==
  { ConfirmWord \o <<"!">>,
    <<"c", "o", "n", " ", "f", "i", "r", "m">>,
    ConfirmWord \o <<"e", "d">>,
    <<"c", "a", "n", "c", "e", "l", " ", "i", "t">>,
    <<"y", "e", "s">>,
    <<"Y">> }

ConfirmationTexts == ExactConfirm \cup ExactCancel \cup RouterCommands \cup OtherReplies

\* variant of ConfirmationVerdict with a plausible bug: the reply is compared
\* as it was typed, capitals and all
ConfirmationVerdict_CaseSensitive(text) ==
  LET lower == trim(text)
  IN IF lower = CancelWord THEN "cancel"
     ELSE IF lower # ConfirmWord THEN "other"
     ELSE "confirm"

\* handleConfirmation on the text of a reply: "cancel", "confirm" or "other"
ConfirmationVerdict(text) ==
  LET lower == trim(toLowerCaseChars(text))
  IN IF lower = CancelWord THEN "cancel"
     ELSE IF lower # ConfirmWord THEN "other"
     ELSE "confirm"

\* the global commands of handleMessage: the first word of a text that starts
\* with "/", in lower case; of /help, /tasks, /cancel and /status the one that
\* touches the task, /cancel, is modelled
GlobalCommand(trimmedText) ==
  IF trimmedText # <<>> /\ trimmedText[1] = "/"
     /\ toLowerCaseChars(FirstWord(trimmedText)) = CancelCommand
  THEN CancelCommand
  ELSE <<>>

\* any other reply while the task awaits confirmation: the hint "Reply confirm
\* to place orders, or cancel to dismiss" is sent and the task keeps waiting;
\* a reply that throws makes the router clean the task up
ConfirmHint(u) ==
  /\ userStates[u].activeTask = "/trade"
  /\ userStates[u].taskState = "awaiting_confirmation"
  /\ \E replyOk \in BOOLEAN :
       /\ userStates' = IF replyOk THEN userStates ELSE clearTask(userStates, u)
       /\ out' = [kind |-> "confirm_hint", userId |-> u, delivered |-> replyOk]
  /\ UNCHANGED <<sandbox, requests, sendFn, alerts, pendingFills, priceHistory, orders, procs,
                 nextPlan, ticks, runs, fired>>

\* MessageRouter.cancelTask ("/cancel"): the active task is cleaned up and
\* the cancellation reported
cancelTask(u) ==
  /\ hasActiveTask(userStates, u)
  /\ userStates' = clearTask(userStates, u)
  /\ \E replyOk \in BOOLEAN :
       out' = [kind |-> "task_cancelled", userId |-> u, delivered |-> replyOk]
  /\ UNCHANGED <<sandbox, requests, sendFn, alerts, pendingFills, priceHistory, orders, procs,
                 nextPlan, ticks, runs, fired>>

\* handleMessage for a message of a user whose /trade task awaits the
\* confirmation: the router's own commands first, then the task's onMessage,
\* which hands the trimmed text to handleConfirmation
ConfirmationMessage(u, text, h) ==
  /\ userStates[u].activeTask = "/trade"
  /\ userStates[u].taskState = "awaiting_confirmation"
  /\ LET trimmedText == trim(text)
         verdict == ConfirmationVerdict(trimmedText)
     IN /\ trimmedText # <<>>
        /\ IF GlobalCommand(trimmedText) = CancelCommand THEN cancelTask(u)
           ELSE IF verdict = "cancel" THEN Dismiss(u)
           ELSE IF verdict = "confirm" THEN Confirm(u, h)
           ELSE ConfirmHint(u)

\* One user, one plan, and whatever the user replies to the fired alert.
NextReplies ==
  \/ PlanSteps(FillTexts, MaxTradePlans, {"h1"})
  \/ PriceSteps({"t1"})
  \/ \E u \in ActiveUsers, text \in ConfirmationTexts : ConfirmationMessage(u, text, "h1")
  \/ BuyReturn("h1")
  \/ PlacedReplyReturn("h1")

SpecReplies == InitTrade /\ [][NextReplies]_vars

====
